---- MODULE Spec2Model ----
(***************************************************************************)
(* Model of the dependency resolution engine of copy-with-dependencies:    *)
(* DependencyResolver (resolve, resolveDependenciesRecursive,              *)
(* resolveImportPath, topologicalSort), the plugin registry and the parts  *)
(* of TypeScriptPlugin / BaseLanguagePlugin that the resolver calls.       *)
(*                                                                         *)
(* Paths are sequences of tokens: a name, "/index", or an extension such   *)
(* as ".ts"; string concatenation (P + ext) and path.join(P, "index"+ext)  *)
(* are appends of tokens.  The empty sequence stands for null.             *)
(* A file's text is the record [empty, imports]: whether the text is the   *)
(* empty string, and the import specifiers parseImports finds in it, one   *)
(* entry per ImportInfo the parser emits, in source order.                 *)
(* The async recursion of resolveDependenciesRecursive and the recursion   *)
(* of topologicalSort's visit are explicit stacks of frames, one step per  *)
(* action.  A fragment made from a selection carries a range, and resolve  *)
(* then extracts the same-file dependencies from the target's source.      *)
(***************************************************************************)
EXTENDS Integers, Sequences, FiniteSets, TLC

\* ---------------------------------------------------------------- bounds
\* total number of import entries in the files of a drawn file system
MaxEdges == 3
\* largest explicit maxDepth passed in ResolveOptions
MaxDepthOpt == 1
\* fuel of the reference run from a freshly constructed instance
MaxRunSteps == 40
\* identifier references placed in a generated source file
MaxRefs == 3
\* dependencies and errors of a result handed to the formatter
MaxDeps == 2
MaxErrors == 2
\* AST nodes of a document handed to extractFragment
MaxNodes == 3
\* selection events before a copy
MaxEvents == 2

\* ---------------------------------------------------- program constants
DefaultMaxDepth == 10
fileExtensions == <<".ts", ".tsx", ".js", ".jsx">>
plugins ==
  << [languageId |-> "typescript", fileExtensions |-> fileExtensions],
     [languageId |-> "javascript", fileExtensions |-> fileExtensions] >>
NoPlugin == [languageId |-> "", fileExtensions |-> <<>>]

\* options.maxDepth left out of ResolveOptions
Undefined == 0 - 1
Null == <<>>

\* ------------------------------------------------------------- universe
Names == {"a", "b", "c"}
DotTokens == {".ts", ".tsx", ".js", ".jsx", ".py"}
Range(s) == {s[i] : i \in DOMAIN s}

\* import specifiers: './n' (pre "."), 'fs' (bare, pre "")
Rel(n) == [pre |-> ".", segs |-> <<n>>]
Bare(n) == [pre |-> "", segs |-> <<n>>]
RelativeSpecifiers == {Rel(n) : n \in Names}
Specifiers == RelativeSpecifiers \cup {Bare("fs")}

TsFile(n) == <<n, ".ts">>
IndexTs(n) == <<n, "/index", ".ts">>

\* a range of the document, as the offsets of its two ends
Span(start, end) == [start |-> start, end |-> end]
NoRange == Span(0, 0)

\* a whole-file fragment
Fragment(filePath, language) ==
  [filePath |-> filePath, language |-> language, hasRange |-> FALSE, range |-> NoRange]

\* a fragment made from a selection
RangeFragment(filePath, language, range) ==
  [filePath |-> filePath, language |-> language, hasRange |-> TRUE, range |-> range]

\* a.ts under a language id no plugin registers, a.py (not on disk) under a
\* registered and under an unregistered language id
Fragments ==
  { Fragment(TsFile("a"), "plaintext"),
    Fragment(<<"a", ".py">>, "typescript"),
    Fragment(<<"a", ".py">>, "plaintext") }

\* two files of the registered language, for calls that follow one another
ReuseFragments ==
  { Fragment(TsFile("a"), "typescript"), Fragment(TsFile("b"), "typescript") }

OptionSet ==
  { [maxDepth |-> d, includeExternal |-> FALSE] : d \in {Undefined} \cup (0..MaxDepthOpt) }
  \cup { [maxDepth |-> Undefined, includeExternal |-> TRUE] }

ReuseOptionSet ==
  { [maxDepth |-> d, includeExternal |-> FALSE] : d \in {Undefined} \cup (1..MaxDepthOpt) }

\* ---------------------------------------------------------- file systems
DefectKinds == {"unreadable", "empty", "dir", "absent"}
NoDefect == [name |-> "", kind |-> "none"]
DefectNames == {"a", "b"}
Defects == {NoDefect} \cup [name : DefectNames, kind : DefectKinds]

\* a source text without statements
NoSource == [statements |-> <<>>, declarations |-> <<>>, tokens |-> <<>>]

Entry(kind, readable, empty, imports) ==
  [kind |-> kind, readable |-> readable, empty |-> empty, imports |-> imports,
   source |-> NoSource]

\* the entries name n contributes to the disk
EntriesOf(n, imps, defect) ==
  IF defect.name # n
    THEN {<<TsFile(n), Entry("file", TRUE, FALSE, imps)>>}
  ELSE IF defect.kind = "unreadable"
    THEN {<<TsFile(n), Entry("file", FALSE, FALSE, imps)>>}
  ELSE IF defect.kind = "empty"
    THEN {<<TsFile(n), Entry("file", TRUE, TRUE, <<>>)>>}
  ELSE IF defect.kind = "dir"
    THEN {<<(<<n>>), Entry("dir", TRUE, FALSE, <<>>)>>,
          <<IndexTs(n), Entry("file", TRUE, FALSE, imps)>>}
  ELSE {}

MakeDisk(imports, defect) ==
  LET es == UNION {EntriesOf(n, imports[n], defect) : n \in Names}
  IN [p \in {e[1] : e \in es} |-> (CHOOSE e \in es : e[1] = p)[2]]

\* import lists of a.ts, b.ts, c.ts over the specifiers S, holding at most
\* MaxEdges entries in total, with at most one defective name out of D; a
\* defective b has no import list of its own, and behind a defective a (the
\* file every traversal starts from) all lists are empty
DiskFamily(S, D) ==
  { MakeDisk([n \in Names |-> IF n = "a" THEN t[1] ELSE IF n = "b" THEN t[2] ELSE t[3]], t[4]) :
      t \in
        { u \in UNION { UNION { UNION {
              [1..la -> S] \X [1..lb -> S] \X [1..lc -> S] \X D
                : lc \in 0..(MaxEdges - la - lb) }
                : lb \in 0..(MaxEdges - la) }
                : la \in 0..MaxEdges } :
            \/ u[4] = NoDefect
            \/ u[4].name = "b" /\ u[2] = <<>>
            \/ u[4].name = "a" /\ u[1] = <<>> /\ u[2] = <<>> /\ u[3] = <<>> } }

Disks == DiskFamily(Specifiers, Defects)
ReuseDisks == DiskFamily(RelativeSpecifiers, {NoDefect})

VARIABLES disk, resolver, call, trace, peer, localExtraction, formatting,
          fragmentExtraction, editor
vars == <<disk, resolver, call, trace, peer, localExtraction, formatting,
          fragmentExtraction, editor>>

\* ------------------------------------------------------------ fs, path
existsSync(p) == p \in DOMAIN disk

\* fs.readFileSync does not throw
CanRead(p) == p \in DOMAIN disk /\ disk[p].kind = "file" /\ disk[p].readable

readFileSync(p) ==
  [empty |-> disk[p].empty, imports |-> disk[p].imports, source |-> disk[p].source]

RECURSIVE StripExt(_)
StripExt(p) ==
  IF Len(p) > 0 /\ p[Len(p)] \in DotTokens THEN StripExt(SubSeq(p, 1, Len(p) - 1)) ELSE p

\* path.dirname
Dirname(p) ==
  LET q == StripExt(p) IN IF Len(q) = 0 THEN <<>> ELSE SubSeq(q, 1, Len(q) - 1)

isExternalDependency(importPath) ==
  \/ importPath.pre \notin {".", "/"}
  \/ "node_modules" \in Range(importPath.segs)

\* path.join(workspaceRoot, importPath) / path.resolve(fromDir, importPath)
BasePath(importPath, fromFile) ==
  IF importPath.pre = "/" THEN importPath.segs ELSE Dirname(fromFile) \o importPath.segs

RECURSIVE FirstExisting(_)
FirstExisting(cands) ==
  IF cands = <<>> THEN Null
  ELSE IF existsSync(Head(cands)) THEN Head(cands)
  ELSE FirstExisting(Tail(cands))

\* the paths probed with fs.existsSync, in probing order
Candidates(P) ==
  [i \in 1..Len(fileExtensions) |-> P \o <<fileExtensions[i]>>]
  \o <<P>>
  \o [i \in 1..Len(fileExtensions) |-> P \o <<"/index", fileExtensions[i]>>]

\* mutant: external specifiers are resolved like relative ones
resolveImportPathAny(importPath, fromFile) ==
  FirstExisting(Candidates(BasePath(importPath, fromFile)))

resolveImportPath(importPath, fromFile) ==
  IF isExternalDependency(importPath) THEN Null
  ELSE FirstExisting(Candidates(BasePath(importPath, fromFile)))

\* ------------------------------------------------------- plugin registry
getPluginForLanguage(languageId) ==
  IF \E i \in DOMAIN plugins : plugins[i].languageId = languageId
    THEN plugins[CHOOSE i \in DOMAIN plugins :
                   /\ plugins[i].languageId = languageId
                   /\ \A j \in 1..(i - 1) : plugins[j].languageId # languageId]
    ELSE NoPlugin

\* filePath.substring(filePath.lastIndexOf('.'))
ExtOf(filePath) ==
  IF Len(filePath) > 0 /\ filePath[Len(filePath)] \in DotTokens
    THEN filePath[Len(filePath)] ELSE ""

\* mutant: no lookup by extension
getPluginForFileNone(filePath) == NoPlugin

getPluginForFile(filePath) ==
  LET ext == ExtOf(filePath)
      Has(i) == ext \in Range(plugins[i].fileExtensions)
  IN IF \E i \in DOMAIN plugins : Has(i)
       THEN plugins[CHOOSE i \in DOMAIN plugins : Has(i) /\ \A j \in 1..(i - 1) : ~Has(j)]
       ELSE NoPlugin

selectPlugin(fragment) ==
  LET byLanguage == getPluginForLanguage(fragment.language)
  IN IF byLanguage # NoPlugin THEN byLanguage ELSE getPluginForFile(fragment.filePath)

\* ------------------------------------------------------- TypeScriptPlugin
\* one ImportInfo per entry, fromFile set by the parser
parseImports(content, filePath) ==
  [i \in DOMAIN content.imports |-> [path |-> content.imports[i], fromFile |-> filePath]]

NoDependency ==
  [filePath |-> Null, content |-> [empty |-> TRUE, imports |-> <<>>, source |-> NoSource]]

\* the file paths resolveDependency hands to fs.readFileSync
resolveDependencyReads(importInfo) ==
  LET filePath == resolveImportPath(importInfo.path, importInfo.fromFile)
  IN IF filePath = Null THEN <<>> ELSE <<filePath>>

resolveDependency(importInfo) ==
  LET filePath == resolveImportPath(importInfo.path, importInfo.fromFile)
  IN IF filePath = Null THEN NoDependency
     ELSE IF ~CanRead(filePath) THEN NoDependency
     ELSE IF readFileSync(filePath).empty THEN NoDependency
     ELSE [filePath |-> filePath, content |-> readFileSync(filePath)]

\* ------------------------------------------- Map and Set, insertion-ordered
MapHas(m, k) == \E i \in DOMAIN m : m[i].key = k
MapGet(m, k) == m[CHOOSE i \in DOMAIN m : m[i].key = k].val
MapSet(m, k, v) ==
  IF MapHas(m, k)
    THEN [i \in DOMAIN m |-> IF m[i].key = k THEN [key |-> k, val |-> v] ELSE m[i]]
    ELSE Append(m, [key |-> k, val |-> v])
MapKeys(m) == [i \in DOMAIN m |-> m[i].key]
\* mutant: the edge is not recorded
SetAddNot(s, x) == s

\* Set.add
SetAdd(s, x) == IF x \in Range(s) THEN s ELSE Append(s, x)

\* ------------------------------------------------- source files (AST view)
\* What ts.createSourceFile yields, as far as extractLocalDependencies looks
\* at it: the top-level statements, the declaration nodes (top-level ones,
\* parameters), and the tokens. A token is a keyword or an identifier in one
\* of three positions: the name of a declaration ("name"), the name of a
\* property access or assignment ("property"), any other ("ref"); `inner` is
\* the span of the innermost statement around it.
TopNames == <<"foo", "bar", "baz">>
Containers == <<"foo", "bar", "baz", "main">>
IsFunctionContainer(c) == c \in Range(TopNames)

Token(text, role) == [text |-> text, role |-> role]

\* the places an identifier can be put: in the body of a function, as a
\* statement of its own, or in the one expression statement `main`
RefSlots ==
  {[in |-> c, text |-> n, role |-> "ref"] : c \in Range(Containers), n \in Range(TopNames)}
  \cup {[in |-> "main", text |-> n, role |-> "property"] : n \in Range(TopNames)}

\* a parameter that shadows a top-level name
NoShadow == [in |-> "", text |-> ""]
Shadows == {NoShadow, [in |-> "baz", text |-> "bar"]}

Orders == {Containers, <<"main", "baz", "bar", "foo">>}

\* the identifiers of `slots` inside container c, by name then role
RefsIn(c, slots) ==
  LET pick(n, r) == IF [in |-> c, text |-> n, role |-> r] \in slots
                      THEN <<Token(n, r)>> ELSE <<>>
      RECURSIVE all(_)
      all(i) == IF i > Len(TopNames) THEN <<>>
                ELSE pick(TopNames[i], "ref") \o pick(TopNames[i], "property") \o all(i + 1)
  IN all(1)

\* the tokens of container c: `function c(p) { r1; r2 }` or `console(r1, r2)`
TokensOf(c, slots, shadow) ==
  IF IsFunctionContainer(c)
    THEN <<Token("function", "keyword"), Token(c, "name")>>
         \o (IF shadow.in = c THEN <<Token(shadow.text, "name")>> ELSE <<>>)
         \o RefsIn(c, slots)
    ELSE <<Token("console", "ref")>> \o RefsIn(c, slots)

\* token k of the file occupies the offsets 2k-2 .. 2k-1
TokenStart(k) == 2 * k - 2
TokenEnd(k) == 2 * k - 1

RECURSIVE Layout(_, _, _, _)
Layout(order, slots, shadow, firstToken) ==
  IF order = <<>> THEN [statements |-> <<>>, declarations |-> <<>>, tokens |-> <<>>]
  ELSE
    LET c == Head(order)
        toks == TokensOf(c, slots, shadow)
        last == firstToken + Len(toks) - 1
        span == [start |-> TokenStart(firstToken), end |-> TokenEnd(last)]
        isFn == IsFunctionContainer(c)
        headLen == IF ~isFn THEN 0 ELSE IF shadow.in = c THEN 3 ELSE 2
        placed == [i \in 1..Len(toks) |->
                     [text |-> toks[i].text, role |-> toks[i].role,
                      start |-> TokenStart(firstToken + i - 1),
                      end |-> TokenEnd(firstToken + i - 1),
                      inner |-> IF isFn /\ i > headLen
                                  THEN [start |-> TokenStart(firstToken + i - 1),
                                        end |-> TokenEnd(firstToken + i - 1)]
                                  ELSE span]]
        stmt == [kind |-> IF isFn THEN "function" ELSE "expression",
                 names |-> IF isFn THEN <<c>> ELSE <<>>,
                 start |-> span.start, end |-> span.end]
        decls == IF ~isFn THEN <<>>
                 ELSE <<[name |-> c, start |-> span.start, end |-> span.end]>>
                      \o (IF shadow.in = c
                            THEN <<[name |-> shadow.text,
                                    start |-> TokenStart(firstToken + 2),
                                    end |-> TokenEnd(firstToken + 2)]>>
                            ELSE <<>>)
        rest == Layout(Tail(order), slots, shadow, last + 1)
    IN [statements |-> <<stmt>> \o rest.statements,
        declarations |-> decls \o rest.declarations,
        tokens |-> placed \o rest.tokens]

SourceFile(order, slots, shadow) == Layout(order, slots, shadow, 1)

SlotSets == {S \in SUBSET RefSlots : Cardinality(S) <= MaxRefs}
SourceFiles ==
  {SourceFile(o, S, sh) : o \in Orders, S \in SlotSets, sh \in Shadows}

\* the selections: a whole top-level statement, or one token
SelectionsOf(sf) ==
  {Span(sf.statements[i].start, sf.statements[i].end) : i \in DOMAIN sf.statements}
  \cup {Span(sf.tokens[k].start, sf.tokens[k].end) : k \in DOMAIN sf.tokens}

\* ---- sources written statement by statement
\* `function n(params) { refs }` or `var n1, n2 = refs`
Statement(kind, names, params, refs) ==
  [kind |-> kind, names |-> names, params |-> params, refs |-> refs]

StatementTokens(d) ==
  <<Token(IF d.kind = "function" THEN "function" ELSE "var", "keyword")>>
  \o [i \in DOMAIN d.names |-> Token(d.names[i], "name")]
  \o [i \in DOMAIN d.params |-> Token(d.params[i], "name")]
  \o [i \in DOMAIN d.refs |-> Token(d.refs[i], "ref")]

\* the declaration nodes of a statement whose first token is firstToken: a
\* function declaration and its parameters, or the variable declarations of
\* a variable statement, the last of which holds the initializer
DeclarationNodes(d, firstToken, span) ==
  LET at(k) == Span(TokenStart(firstToken + k - 1), TokenEnd(firstToken + k - 1))
  IN IF d.kind = "function"
       THEN <<[name |-> d.names[1], start |-> span.start, end |-> span.end]>>
            \o [j \in DOMAIN d.params |->
                  [name |-> d.params[j],
                   start |-> at(1 + Len(d.names) + j).start,
                   end |-> at(1 + Len(d.names) + j).end]]
       ELSE [j \in DOMAIN d.names |->
               [name |-> d.names[j],
                start |-> at(1 + j).start,
                end |-> IF j = Len(d.names) THEN span.end ELSE at(1 + j).end]]

RECURSIVE LayoutStatements(_, _)
LayoutStatements(descs, firstToken) ==
  IF descs = <<>> THEN [statements |-> <<>>, declarations |-> <<>>, tokens |-> <<>>]
  ELSE
    LET d == Head(descs)
        toks == StatementTokens(d)
        last == firstToken + Len(toks) - 1
        span == [start |-> TokenStart(firstToken), end |-> TokenEnd(last)]
        headLen == 1 + Len(d.names) + Len(d.params)
        placed == [i \in 1..Len(toks) |->
                     [text |-> toks[i].text, role |-> toks[i].role,
                      start |-> TokenStart(firstToken + i - 1),
                      end |-> TokenEnd(firstToken + i - 1),
                      inner |-> IF d.kind = "function" /\ i > headLen
                                  THEN [start |-> TokenStart(firstToken + i - 1),
                                        end |-> TokenEnd(firstToken + i - 1)]
                                  ELSE span]]
        stmt == [kind |-> d.kind, names |-> d.names, start |-> span.start, end |-> span.end]
        rest == LayoutStatements(Tail(descs), last + 1)
    IN [statements |-> <<stmt>> \o rest.statements,
        declarations |-> DeclarationNodes(d, firstToken, span) \o rest.declarations,
        tokens |-> placed \o rest.tokens]

\* function qux() { foo }      function baz(bar) { qux }
\* function foo() { bar }      function bar() {}
\* var x = 1                   var x = 2, y = 3
\* function use(x) { x; y }    function both() { x; y }
DeclarationPool ==
  << Statement("function", <<"qux">>, <<>>, <<"foo">>),
     Statement("function", <<"baz">>, <<"bar">>, <<"qux">>),
     Statement("function", <<"foo">>, <<>>, <<"bar">>),
     Statement("function", <<"bar">>, <<>>, <<>>),
     Statement("variable", <<"x">>, <<>>, <<>>),
     Statement("variable", <<"x", "y">>, <<>>, <<>>),
     Statement("function", <<"use">>, <<"x">>, <<"x", "y">>),
     Statement("function", <<"both">>, <<>>, <<"x", "y">>) >>

Reverse(seq) == [i \in DOMAIN seq |-> seq[Len(seq) + 1 - i]]

\* the statements of the pool at the indices S, in the order of the pool
PoolAt(S) == LET keep(d) == \E i \in S : DeclarationPool[i] = d
             IN SelectSeq(DeclarationPool, keep)

\* every choice of statements of the pool, in the order above or reversed
DeclarationSources ==
  UNION {{LayoutStatements(PoolAt(S), 1), LayoutStatements(Reverse(PoolAt(S)), 1)} :
           S \in SUBSET DOMAIN DeclarationPool}

\* the selections: a run of whole top-level statements, or one token
RunsOf(sf) ==
  {Span(sf.statements[i].start, sf.statements[j].end) :
     i \in DOMAIN sf.statements, j \in DOMAIN sf.statements}
  \cup {Span(sf.tokens[k].start, sf.tokens[k].end) : k \in DOMAIN sf.tokens}

\* ------------------------------------- TypeScriptPlugin.extractLocalDependencies
RECURSIVE Distinct(_)
\* the elements of a sequence in order of first occurrence (Set insertion order)
Distinct(seq) ==
  IF seq = <<>> THEN <<>>
  ELSE LET init == Distinct(SubSeq(seq, 1, Len(seq) - 1))
           x == seq[Len(seq)]
       IN IF x \in Range(init) THEN init ELSE Append(init, x)

\* declarationByName.get(name): index of the statement, 0 when absent
declarationByName(sf, name) ==
  LET declaring == {i \in DOMAIN sf.statements : name \in Range(sf.statements[i].names)}
  IN IF declaring = {} THEN 0
     ELSE CHOOSE i \in declaring : \A j \in declaring : i <= j

\* `nodeStart > spanEnd || nodeEnd < spanStart` is false
Overlaps(node, span) == ~(node.start > span.end \/ node.end < span.start)
Within(node, outer) == node.start >= outer.start /\ node.end <= outer.end

\* mutant: no name counts as declared inside the range
localDeclaredNamesNone(sf, range) == {}

\* collectLocalDeclarations: names of the declaration nodes that touch the range
localDeclaredNames(sf, range) ==
  {sf.declarations[i].name : i \in {j \in DOMAIN sf.declarations : Overlaps(sf.declarations[j], range)}}

getLocalDeclaredNamesForNode(sf, node) ==
  {sf.declarations[i].name : i \in {j \in DOMAIN sf.declarations : Within(sf.declarations[j], node)}}

TextsOf(tokens) == [i \in DOMAIN tokens |-> tokens[i].text]

\* collectIdentifiersInSpan(node, spanStart, spanEnd, localNames, outNames):
\* the names it adds, in the order it meets them
collectIdentifiersInSpan(sf, node, span, localNames) ==
  LET counted(t) ==
        /\ Within(t, node) /\ Overlaps(t, span)
        /\ t.role = "ref"
        /\ declarationByName(sf, t.text) # 0
        /\ t.text \notin localNames
  IN Distinct(TextsOf(SelectSeq(sf.tokens, counted)))

WholeFile(sf) ==
  Span(0, IF sf.tokens = <<>> THEN 0 ELSE sf.tokens[Len(sf.tokens)].end)

\* mutant: the first named function or class statement, wherever the range is
findTargetDeclarationNameFirst(sf, range) ==
  LET holds(i) == /\ sf.statements[i].kind \in {"function", "class"}
                  /\ sf.statements[i].names # <<>>
      found == {i \in DOMAIN sf.statements : holds(i)}
  IN IF found = {} THEN ""
     ELSE sf.statements[CHOOSE i \in found : \A j \in found : i <= j].names[1]

\* the name of the function or class statement that contains the range
findTargetDeclarationName(sf, range) ==
  LET holds(i) == /\ sf.statements[i].start <= range.start
                  /\ sf.statements[i].end >= range.end
                  /\ sf.statements[i].kind \in {"function", "class"}
                  /\ sf.statements[i].names # <<>>
      found == {i \in DOMAIN sf.statements : holds(i)}
  IN IF found = {} THEN ""
     ELSE sf.statements[CHOOSE i \in found : \A j \in found : i <= j].names[1]

\* collectUsageDependencies: for every mention of the target outside the
\* range, the declared names its enclosing statement mentions
collectUsageDependencies(sf, range, target) ==
  LET mention(t) ==
        /\ t.role \in {"ref", "property"} /\ t.text = target
        /\ (t.inner.end < range.start \/ t.inner.start > range.end)
      mentions == SelectSeq(sf.tokens, mention)
      added(u) ==
        /\ u.role \in {"ref", "property"} /\ u.text # target
        /\ declarationByName(sf, u.text) # 0
        /\ \E i \in DOMAIN mentions : Within(u, mentions[i].inner)
  IN Distinct(TextsOf(SelectSeq(sf.tokens, added)))

IdleExtraction ==
  [phase |-> "idle", sourceFile |-> NoSource, range |-> Span(0, 0),
   requiredNames |-> <<>>, queue |-> <<>>, seenNodes |-> {}, requiredNodes |-> <<>>,
   shifts |-> 0, fromRange |-> <<>>, fromUsage |-> <<>>, out |-> <<>>]

extractBegin(sf, range) ==
  [IdleExtraction EXCEPT !.phase = "range", !.sourceFile = sf, !.range = range]

\* initial requirements: the identifiers of the range
collectFromRange(x) ==
  LET names == collectIdentifiersInSpan(x.sourceFile, WholeFile(x.sourceFile), x.range,
                                        localDeclaredNames(x.sourceFile, x.range))
  IN [x EXCEPT !.phase = "usage", !.requiredNames = names, !.fromRange = names]

\* requirements from the usages of the selected function or class
collectFromUsage(x) ==
  LET target == findTargetDeclarationName(x.sourceFile, x.range)
      names == IF target = "" THEN <<>>
               ELSE collectUsageDependencies(x.sourceFile, x.range, target)
      required == Distinct(x.requiredNames \o names)
  IN [x EXCEPT !.phase = "closure", !.requiredNames = required, !.queue = required,
               !.fromUsage = names]

StatementSpan(sf, i) == Span(sf.statements[i].start, sf.statements[i].end)

\* mutant: the references of a required declaration are not followed
closureStepShallow(x) ==
  LET name == Head(x.queue)
      node == declarationByName(x.sourceFile, name)
      shifted == [x EXCEPT !.queue = Tail(@), !.shifts = @ + 1]
  IN IF node = 0 \/ node \in x.seenNodes THEN shifted
     ELSE [shifted EXCEPT !.seenNodes = @ \cup {node}, !.requiredNodes = Append(@, node)]

\* one iteration of `while (queue.length > 0)`
closureStep(x) ==
  LET name == Head(x.queue)
      node == declarationByName(x.sourceFile, name)
      shifted == [x EXCEPT !.queue = Tail(@), !.shifts = @ + 1]
  IN IF node = 0 \/ node \in x.seenNodes THEN shifted
     ELSE
       LET span == StatementSpan(x.sourceFile, node)
           nodeNames == collectIdentifiersInSpan(x.sourceFile, span, span,
                                                 getLocalDeclaredNamesForNode(x.sourceFile, span))
           isNew(n) == n \notin Range(x.requiredNames)
           fresh == SelectSeq(nodeNames, isNew)
       IN [shifted EXCEPT !.seenNodes = @ \cup {node},
                          !.requiredNodes = Append(@, node),
                          !.requiredNames = @ \o fresh,
                          !.queue = @ \o fresh]

RECURSIVE sortByStart(_, _)
\* requiredNodes.sort((a, b) => a.getStart() - b.getStart()), stable
sortByStart(sf, nodes) ==
  IF nodes = <<>> THEN <<>>
  ELSE LET least == CHOOSE i \in DOMAIN nodes :
                      /\ \A j \in DOMAIN nodes :
                           sf.statements[nodes[i]].start <= sf.statements[nodes[j]].start
                      /\ \A j \in 1..(i - 1) :
                           sf.statements[nodes[j]].start > sf.statements[nodes[i]].start
           others == [k \in 1..(Len(nodes) - 1) |-> IF k < least THEN nodes[k] ELSE nodes[k + 1]]
       IN <<nodes[least]>> \o sortByStart(sf, others)

\* `${filePath}#local:${name}`, '#local' for a node without a name
localPath(filePath, names) ==
  IF names = <<>> THEN filePath \o <<"#local">> ELSE filePath \o <<"#local:", names[1]>>

localType(kind) ==
  IF kind \in {"class", "interface", "type", "enum"} THEN kind
  ELSE IF kind = "variable" THEN "constant" ELSE "function"

\* content.substring(nodeStart, nodeEnd), as the tokens it holds
snippet(sf, span) ==
  LET inside(t) == Within(t, span) IN TextsOf(SelectSeq(sf.tokens, inside))

localDependency(sf, node, filePath) ==
  [filePath |-> localPath(filePath, sf.statements[node].names),
   content |-> snippet(sf, StatementSpan(sf, node)),
   type |-> localType(sf.statements[node].kind),
   node |-> node]

\* mutant: the nodes are emitted in the order the closure found them
emitLocalUnsorted(x, filePath) ==
  LET sorted == x.requiredNodes
  IN [x EXCEPT !.phase = "done",
               !.out = [i \in DOMAIN sorted |-> localDependency(x.sourceFile, sorted[i], filePath)]]

\* sort and emission
emitLocal(x, filePath) ==
  LET sorted == sortByStart(x.sourceFile, x.requiredNodes)
  IN [x EXCEPT !.phase = "done",
               !.out = [i \in DOMAIN sorted |-> localDependency(x.sourceFile, sorted[i], filePath)]]

extractionStep(x, filePath) ==
  IF x.phase = "range" THEN collectFromRange(x)
  ELSE IF x.phase = "usage" THEN collectFromUsage(x)
  ELSE IF x.phase = "closure" /\ x.queue # <<>> THEN closureStep(x)
  ELSE IF x.phase = "closure" THEN emitLocal(x, filePath)
  ELSE x

RECURSIVE RunExtraction(_, _, _)
RunExtraction(x, filePath, fuel) ==
  IF x.phase = "done" \/ fuel = 0 THEN x
  ELSE RunExtraction(extractionStep(x, filePath), filePath, fuel - 1)

extractLocalDependencies(sf, range, filePath) ==
  RunExtraction(extractBegin(sf, range), filePath, MaxRunSteps).out

\* ------------------------------------------------------------ resolver
NewResolver ==
  [visitedFiles |-> {}, dependencyGraph |-> <<>>, resolvedDependencies |-> <<>>]

NoFragment == Fragment(Null, "")
NoOptions == [maxDepth |-> Undefined, includeExternal |-> FALSE]
NoResult == [dependencies |-> <<>>, targetFragment |-> NoFragment, errors |-> <<>>]

IdleCall ==
  [phase |-> "idle", fragment |-> NoFragment, options |-> NoOptions,
   maxDepth |-> DefaultMaxDepth, plugin |-> NoPlugin, errors |-> <<>>,
   stack |-> <<>>, sorted |-> <<>>, visited |-> {}, visiting |-> {},
   keyIdx |-> 1, vstack |-> <<>>, result |-> NoResult]

NoPathCall == [importPath |-> Bare(""), fromFile |-> Null, result |-> Null, made |-> FALSE]

\* history of one resolve pass: files handed to readFileSync, files whose
\* imports were parsed, paths handed to plugin.resolveDependency, the depth at
\* which each Dependency was cached, the last resolveImportPath call, the
\* number of steps taken since the call began and since its sort began, and
\* the file of the call the instance served before this one (Null: none)
NewTrace ==
  [reads |-> <<>>, parsed |-> <<>>, resolveCalls |-> <<>>, depth |-> <<>>,
   lastPath |-> NoPathCall, steps |-> 0, sortSteps |-> 0, previous |-> Null]

Frame(filePath, currentDepth) ==
  [filePath |-> filePath, currentDepth |-> currentDepth, imports |-> <<>>, i |-> 1, pc |-> "enter"]

Top(st) == st[Len(st)]
Pop(st) == SubSeq(st, 1, Len(st) - 1)
SetTop(st, f) == [st EXCEPT ![Len(st)] = f]

effectiveMaxDepth(options) ==
  IF options.maxDepth = Undefined \/ options.maxDepth = 0
    THEN DefaultMaxDepth ELSE options.maxDepth

\* mutant: the visited set survives the reset
clearStateKeepsVisited(r) ==
  [r EXCEPT !.dependencyGraph = <<>>, !.resolvedDependencies = <<>>]

clearState(r) ==
  [r EXCEPT !.visitedFiles = {}, !.dependencyGraph = <<>>, !.resolvedDependencies = <<>>]

NoPluginError(fragment) ==
  [msg |-> "No plugin found for language", arg |-> <<fragment.language>>]
ReadError(filePath) == [msg |-> "Cannot read file", arg |-> filePath]

\* resolve up to the first await: reset, options, plugin lookup
resolveBegin(c, fragment, options) ==
  LET plugin == selectPlugin(fragment)
      base == [IdleCall EXCEPT !.fragment = fragment, !.options = options,
                               !.maxDepth = effectiveMaxDepth(options), !.plugin = plugin]
  IN [resolver |-> clearState(c.resolver),
      call |-> IF plugin = NoPlugin
                 THEN [base EXCEPT !.phase = "done",
                                   !.result = [dependencies |-> <<>>,
                                               targetFragment |-> fragment,
                                               errors |-> <<NoPluginError(fragment)>>]]
                 ELSE [base EXCEPT !.phase = "traverse",
                                   !.stack = <<Frame(fragment.filePath, 0)>>],
      trace |-> [NewTrace EXCEPT
                   !.previous = IF c.call.phase = "done" THEN c.call.fragment.filePath ELSE Null]]

\* mutant: nothing below the target is entered
depthExceededBelowTarget(currentDepth, maxDepth) == currentDepth >= 1

depthExceeded(currentDepth, maxDepth) == currentDepth >= maxDepth

\* mutant: no cycle check
alreadyVisitedNever(r, filePath) == FALSE

alreadyVisited(r, filePath) == filePath \in r.visitedFiles

\* resolveDependenciesRecursive from its entry to the start of the import loop
enterStep(c) ==
  LET f == Top(c.call.stack)
      return == [c EXCEPT !.call.stack = Pop(c.call.stack)]
  IN IF depthExceeded(f.currentDepth, c.call.maxDepth) THEN return
     ELSE IF alreadyVisited(c.resolver, f.filePath) THEN return
     ELSE IF ~CanRead(f.filePath)
       THEN [return EXCEPT !.call.errors = Append(@, ReadError(f.filePath)),
                           !.trace.reads = Append(@, f.filePath)]
     ELSE
       LET content == readFileSync(f.filePath)
           imports == parseImports(content, f.filePath)
       IN [c EXCEPT !.resolver.visitedFiles = @ \cup {f.filePath},
                    !.resolver.dependencyGraph =
                       IF MapHas(@, f.filePath) THEN @ ELSE MapSet(@, f.filePath, <<>>),
                    !.call.stack = SetTop(@, [f EXCEPT !.imports = imports, !.pc = "loop"]),
                    !.trace.reads = Append(@, f.filePath),
                    !.trace.parsed = Append(@, f.filePath)]

\* mutant: `break` in place of `continue`
skipImportBreaks(f) == [f EXCEPT !.i = Len(f.imports) + 1]

\* `continue` of the import loop: on to the next import
skipImport(f) == [f EXCEPT !.i = @ + 1]

\* one iteration of the import loop
importStep(c) ==
  LET f == Top(c.call.stack)
      importInfo == f.imports[f.i]
      skipped == [c EXCEPT !.call.stack = SetTop(@, skipImport(f))]
      next == [c EXCEPT !.call.stack = SetTop(@, [f EXCEPT !.i = @ + 1])]
  IN IF ~c.call.options.includeExternal /\ isExternalDependency(importInfo.path)
       THEN skipped
     ELSE
       LET resolvedPath == resolveImportPath(importInfo.path, f.filePath)
           probed == [importPath |-> importInfo.path, fromFile |-> f.filePath,
                      result |-> resolvedPath, made |-> TRUE]
       IN IF resolvedPath = Null
            THEN [skipped EXCEPT !.trace.lastPath = probed]
          ELSE
            LET edge == [next EXCEPT
                           !.trace.lastPath = probed,
                           !.resolver.dependencyGraph =
                              MapSet(@, f.filePath, SetAdd(MapGet(@, f.filePath), resolvedPath))]
            IN IF MapHas(c.resolver.resolvedDependencies, resolvedPath) THEN edge
               ELSE
                 LET dependency == resolveDependency(importInfo)
                     asked == [edge EXCEPT
                                 !.trace.resolveCalls = Append(@, resolvedPath),
                                 !.trace.reads = @ \o resolveDependencyReads(importInfo)]
                 IN IF dependency = NoDependency THEN asked
                    ELSE [asked EXCEPT
                            !.resolver.resolvedDependencies = MapSet(@, resolvedPath, dependency),
                            !.trace.depth = MapSet(@, resolvedPath, f.currentDepth + 1),
                            !.call.stack = Append(@, Frame(resolvedPath, f.currentDepth + 1))]

\* the import loop is exhausted: the call returns to its caller
returnStep(c) == [c EXCEPT !.call.stack = Pop(@)]

\* ------------------------------------------------------- topologicalSort
sortBegin(c) ==
  [c EXCEPT !.call.phase = "sort", !.call.sorted = <<>>, !.call.visited = {},
            !.call.visiting = {}, !.call.keyIdx = 1, !.call.vstack = <<>>]

\* mutant: visit does not return early on a node that is done
visitEnterRevisits(c, filePath) ==
  IF filePath \in c.call.visiting THEN c
  ELSE [c EXCEPT !.call.visiting = @ \cup {filePath},
                 !.call.vstack = Append(@, [filePath |-> filePath, j |-> 1])]

\* entry of visit(filePath): the two early returns, then visiting.add
visitEnter(c, filePath) ==
  IF filePath \in c.call.visiting THEN c
  ELSE IF filePath \in c.call.visited THEN c
  ELSE [c EXCEPT !.call.visiting = @ \cup {filePath},
                 !.call.vstack = Append(@, [filePath |-> filePath, j |-> 1])]

\* this.dependencyGraph.get(filePath), undefined as no deps
graphDeps(r, filePath) ==
  IF MapHas(r.dependencyGraph, filePath) THEN MapGet(r.dependencyGraph, filePath) ELSE <<>>

\* the loop over this.dependencyGraph.keys()
sortNextKey(c) ==
  LET filePath == c.resolver.dependencyGraph[c.call.keyIdx].key
      advanced == [c EXCEPT !.call.keyIdx = @ + 1]
  IN IF filePath \notin c.call.visited THEN visitEnter(advanced, filePath) ELSE advanced

\* one iteration of `for (const dep of deps) visit(dep)`
visitStep(c) ==
  LET v == Top(c.call.vstack)
      deps == graphDeps(c.resolver, v.filePath)
  IN visitEnter([c EXCEPT !.call.vstack = SetTop(@, [v EXCEPT !.j = @ + 1])], deps[v.j])

\* mutant: the dependency is put at the front of the result
visitFinishUnshifts(c) ==
  LET v == Top(c.call.vstack)
      marked == [c EXCEPT !.call.visiting = @ \ {v.filePath},
                          !.call.visited = @ \cup {v.filePath},
                          !.call.vstack = Pop(@)]
  IN IF MapHas(c.resolver.resolvedDependencies, v.filePath)
       THEN [marked EXCEPT !.call.sorted =
                <<MapGet(c.resolver.resolvedDependencies, v.filePath)>> \o @]
       ELSE marked

\* the end of visit: marks and emission
visitFinish(c) ==
  LET v == Top(c.call.vstack)
      marked == [c EXCEPT !.call.visiting = @ \ {v.filePath},
                          !.call.visited = @ \cup {v.filePath},
                          !.call.vstack = Pop(@)]
  IN IF MapHas(c.resolver.resolvedDependencies, v.filePath)
       THEN [marked EXCEPT !.call.sorted =
                Append(@, MapGet(c.resolver.resolvedDependencies, v.filePath))]
       ELSE marked

\* mutant: the trailing loop appends without asking visited
trailingLeavesAll(r, visited) ==
  [i \in DOMAIN r.resolvedDependencies |-> r.resolvedDependencies[i].val]

\* dependencies not present in the graph, appended after the traversal
trailingLeaves(r, visited) ==
  LET rest == SelectSeq(r.resolvedDependencies, LAMBDA e : e.key \notin visited)
  IN [i \in DOMAIN rest |-> rest[i].val]

LocalReadError(filePath) == [msg |-> "Cannot read file for local deps", arg |-> filePath]

\* ts.createSourceFile(filePath, content, ...)
createSourceFile(content) == content.source

\* mutant: the local dependencies are put first
joinDependenciesLocalFirst(sortedDependencies, localDependencies) ==
  localDependencies \o sortedDependencies

\* [...sortedDependencies, ...localDependencies]
joinDependencies(sortedDependencies, localDependencies) ==
  sortedDependencies \o localDependencies

\* the rest of topologicalSort and of resolve: the local dependencies of a
\* fragment that carries a range, and the result
resolveEnd(c) ==
  LET fragment == c.call.fragment
      sortedDependencies == c.call.sorted \o trailingLeaves(c.resolver, c.call.visited)
      wanted == fragment.hasRange /\ fragment.filePath # Null
      failed == wanted /\ ~CanRead(fragment.filePath)
      localDependencies ==
        IF wanted /\ ~failed
          THEN extractLocalDependencies(createSourceFile(readFileSync(fragment.filePath)),
                                        fragment.range, fragment.filePath)
          ELSE <<>>
      errors == IF failed THEN Append(c.call.errors, LocalReadError(fragment.filePath))
                ELSE c.call.errors
  IN [c EXCEPT !.call.sorted = sortedDependencies,
               !.call.errors = errors,
               !.call.phase = "done",
               !.trace.reads = IF wanted THEN Append(@, fragment.filePath) ELSE @,
               !.call.result = [dependencies |->
                                   joinDependencies(sortedDependencies, localDependencies),
                                targetFragment |-> fragment,
                                errors |-> errors]]

\* ------------------------------------------------- which step comes next
canEnter(c) ==
  c.call.phase = "traverse" /\ c.call.stack # <<>> /\ Top(c.call.stack).pc = "enter"
canImport(c) ==
  /\ c.call.phase = "traverse" /\ c.call.stack # <<>>
  /\ Top(c.call.stack).pc = "loop" /\ Top(c.call.stack).i <= Len(Top(c.call.stack).imports)
canReturn(c) ==
  /\ c.call.phase = "traverse" /\ c.call.stack # <<>>
  /\ Top(c.call.stack).pc = "loop" /\ Top(c.call.stack).i > Len(Top(c.call.stack).imports)
canSortBegin(c) == c.call.phase = "traverse" /\ c.call.stack = <<>>
canNextKey(c) ==
  /\ c.call.phase = "sort" /\ c.call.vstack = <<>>
  /\ c.call.keyIdx <= Len(c.resolver.dependencyGraph)
canVisitStep(c) ==
  /\ c.call.phase = "sort" /\ c.call.vstack # <<>>
  /\ Top(c.call.vstack).j <= Len(graphDeps(c.resolver, Top(c.call.vstack).filePath))
canVisitFinish(c) ==
  /\ c.call.phase = "sort" /\ c.call.vstack # <<>>
  /\ Top(c.call.vstack).j > Len(graphDeps(c.resolver, Top(c.call.vstack).filePath))
canResolveEnd(c) ==
  /\ c.call.phase = "sort" /\ c.call.vstack = <<>>
  /\ c.call.keyIdx > Len(c.resolver.dependencyGraph)

stepOf(c) ==
  IF canEnter(c) THEN enterStep(c)
  ELSE IF canImport(c) THEN importStep(c)
  ELSE IF canReturn(c) THEN returnStep(c)
  ELSE IF canSortBegin(c) THEN sortBegin(c)
  ELSE IF canNextKey(c) THEN sortNextKey(c)
  ELSE IF canVisitStep(c) THEN visitStep(c)
  ELSE IF canVisitFinish(c) THEN visitFinish(c)
  ELSE IF canResolveEnd(c) THEN resolveEnd(c)
  ELSE c

\* a whole call on a newly constructed instance, run to its return
RECURSIVE Run(_, _)
Run(c, fuel) ==
  IF c.call.phase = "done" \/ fuel = 0 THEN c ELSE Run(stepOf(c), fuel - 1)

FreshInstance == [resolver |-> NewResolver, call |-> IdleCall, trace |-> NewTrace]

resolveFresh(fragment, options) ==
  Run(resolveBegin(FreshInstance, fragment, options), MaxRunSteps).call

\* ------------------------------------------- resolve between its awaits
\* What a call does from one suspension point to the next. The awaits of
\* resolveDependenciesRecursive are on plugin.parseImports (after
\* visitedFiles.add, before the graph entry), on resolveImportPath (before
\* the edge is added), on plugin.resolveDependency (before the cache is
\* written) and on the recursive call.

\* from the entry of resolveDependenciesRecursive to `await parseImports`, or
\* to one of the early returns
enterUntilAwait(c) ==
  LET entered == enterStep(c)
  IN IF Len(entered.call.stack) = Len(c.call.stack)
       THEN [entered EXCEPT
               !.resolver.dependencyGraph = c.resolver.dependencyGraph,
               !.call.stack = SetTop(@, [Top(@) EXCEPT !.pc = "parsed"])]
       ELSE entered

\* after `await parseImports`: the graph entry of the file
graphInit(c) ==
  LET f == Top(c.call.stack)
  IN [c EXCEPT !.resolver.dependencyGraph =
                  IF MapHas(@, f.filePath) THEN @ ELSE MapSet(@, f.filePath, <<>>),
               !.call.stack = SetTop(@, [f EXCEPT !.pc = "loop"])]

\* `this.dependencyGraph.get(filePath)!.add(...)` when the graph holds no
\* entry for filePath: a TypeError, which rejects the promise of resolve
throwTypeError(c) == [c EXCEPT !.call.phase = "thrown", !.call.stack = <<>>]

\* one iteration of the import loop up to `await plugin.resolveDependency`,
\* or to its end when the import is skipped or its path is in the cache
importUntilAwait(c) ==
  LET f == Top(c.call.stack)
      importInfo == f.imports[f.i]
      resolvedPath == resolveImportPath(importInfo.path, f.filePath)
  IN IF ~c.call.options.includeExternal /\ isExternalDependency(importInfo.path)
       THEN importStep(c)
     ELSE IF resolvedPath = Null THEN importStep(c)
     ELSE IF ~MapHas(c.resolver.dependencyGraph, f.filePath) THEN throwTypeError(c)
     ELSE IF MapHas(c.resolver.resolvedDependencies, resolvedPath) THEN importStep(c)
     ELSE [c EXCEPT
             !.resolver.dependencyGraph =
                MapSet(@, f.filePath, SetAdd(MapGet(@, f.filePath), resolvedPath)),
             !.trace.resolveCalls = Append(@, resolvedPath),
             !.call.stack = SetTop(@, [f EXCEPT !.pc = "asked"])]

\* after `await plugin.resolveDependency`: the cache entry and the recursive
\* call up to its first await
importAfterAwait(c) ==
  LET f == Top(c.call.stack)
      importInfo == f.imports[f.i]
      resolvedPath == resolveImportPath(importInfo.path, f.filePath)
      dependency == resolveDependency(importInfo)
      next == [c EXCEPT !.call.stack = SetTop(@, [f EXCEPT !.i = @ + 1, !.pc = "loop"])]
  IN IF dependency = NoDependency THEN next
     ELSE enterUntilAwait(
            [next EXCEPT
               !.resolver.resolvedDependencies = MapSet(@, resolvedPath, dependency),
               !.call.stack = Append(@, Frame(resolvedPath, f.currentDepth + 1))])

\* mutant: the call starts without the reset
resolveUntilAwaitNoReset(c, fragment, options) ==
  LET begun == [resolveBegin(c, fragment, options) EXCEPT !.resolver = c.resolver]
  IN IF canEnter(begun) THEN enterUntilAwait(begun) ELSE begun

\* resolve from its entry to the first await
resolveUntilAwait(c, fragment, options) ==
  LET begun == resolveBegin(c, fragment, options)
  IN IF canEnter(begun) THEN enterUntilAwait(begun) ELSE begun

\* after `await this.resolveDependenciesRecursive(...)` in resolve: the sort
\* and the rest of resolve, which read the instance and write nothing to it
resolveFinish(c) == Run(c, MaxRunSteps)

atParsed(c) ==
  c.call.phase = "traverse" /\ c.call.stack # <<>> /\ Top(c.call.stack).pc = "parsed"
atAsked(c) ==
  c.call.phase = "traverse" /\ c.call.stack # <<>> /\ Top(c.call.stack).pc = "asked"

\* mutant: the command keeps one resolver for all its invocations
constructsResolverNot == FALSE

\* `const resolver = new DependencyResolver()` in the body of the command
constructsResolver == TRUE

\* the second invocation of the command: its call, the instance it
\* constructed if it does not use the first one's, and whether one of the
\* two calls began while the other was under way
NoPeer ==
  [resolver |-> NewResolver, call |-> IdleCall, trace |-> NewTrace, overlapped |-> FALSE]

\* ----------------------------------------------------------- CodeFormatter
\* text as a sequence of characters; SP, CR, LF stand for ' ', '\r', '\n'
Whitespace == {"SP", "CR", "LF"}

RECURSIVE trimStart(_)
trimStart(text) ==
  IF text # <<>> /\ Head(text) \in Whitespace THEN trimStart(Tail(text)) ELSE text

RECURSIVE trimEnd(_)
trimEnd(text) ==
  IF text # <<>> /\ text[Len(text)] \in Whitespace
    THEN trimEnd(SubSeq(text, 1, Len(text) - 1)) ELSE text

RECURSIVE normalizeLineEndings(_)
\* replace(/\r\n/g, '\n').replace(/\r/g, '\n')
normalizeLineEndings(text) ==
  IF text = <<>> THEN <<>>
  ELSE IF Head(text) = "CR" /\ Len(text) >= 2 /\ text[2] = "LF"
    THEN <<"LF">> \o normalizeLineEndings(Tail(Tail(text)))
  ELSE IF Head(text) = "CR" THEN <<"LF">> \o normalizeLineEndings(Tail(text))
  ELSE <<Head(text)>> \o normalizeLineEndings(Tail(text))

cleanContent(content) == normalizeLineEndings(trimEnd(trimStart(content)))

\* the lines pushed by format
Rule == [kind |-> "rule", arg |-> <<>>]
Dash == [kind |-> "dash", arg |-> <<>>]
Blank == [kind |-> "blank", arg |-> <<>>]
Title(name) == [kind |-> "title", arg |-> <<name>>]
From(path) == [kind |-> "from", arg |-> path]
Code(text) == [kind |-> "code", arg |-> text]
Comment(text) == [kind |-> "comment", arg |-> text]

Section(name) == <<Rule, Title(name), Rule>>

IdleFormat ==
  [phase |-> "idle", result |-> NoResult, includeComments |-> FALSE,
   lines |-> <<>>, addedFiles |-> {}, i |-> 1]

\* options.includeComments !== false
commentsIncluded(option) == option # "false"

formatBegin(result, option) ==
  LET includeComments == commentsIncluded(option)
  IN [IdleFormat EXCEPT
        !.phase = "dependencies", !.result = result, !.includeComments = includeComments,
        !.lines = IF includeComments THEN Section("Dependencies") \o <<Blank>> ELSE <<>>]

\* mutant: no deduplication
alreadyAddedNever(addedFiles, filePath) == FALSE

alreadyAdded(addedFiles, filePath) == filePath \in addedFiles

\* one iteration of the loop over result.dependencies
formatDependency(x) ==
  LET dep == x.result.dependencies[x.i]
      next == [x EXCEPT !.i = @ + 1]
  IN IF alreadyAdded(x.addedFiles, dep.filePath) THEN next
     ELSE [next EXCEPT
             !.addedFiles = @ \cup {dep.filePath},
             !.lines = @ \o (IF x.includeComments THEN <<From(dep.relativePath), Dash>> ELSE <<>>)
                         \o <<Code(cleanContent(dep.content))>>
                         \o (IF x.includeComments THEN <<Blank, Dash, Blank>> ELSE <<Blank>>)]

\* result.targetFragment.relativePath || result.targetFragment.filePath
targetLabel(fragment) ==
  IF fragment.relativePath # <<>> THEN fragment.relativePath ELSE fragment.filePath

formatTarget(x) ==
  LET target == x.result.targetFragment
  IN [x EXCEPT
        !.phase = "warnings",
        !.lines = @ \o (IF x.includeComments THEN Section("Target Code") \o <<Blank>> ELSE <<>>)
                    \o (IF x.includeComments /\ target.filePath # <<>>
                          THEN <<From(targetLabel(target)), Dash, Blank>> ELSE <<>>)
                    \o <<Code(cleanContent(target.content))>>]

formatWarnings(x) ==
  LET errors == x.result.errors
  IN [x EXCEPT
        !.phase = "done",
        !.lines = @ \o (IF Len(errors) > 0 /\ x.includeComments
                          THEN <<Blank>> \o Section("Warnings")
                               \o [k \in DOMAIN errors |-> Comment(errors[k])]
                          ELSE <<>>)]

formatStep(x) ==
  IF x.phase = "dependencies" /\ x.i <= Len(x.result.dependencies) THEN formatDependency(x)
  ELSE IF x.phase = "dependencies" THEN formatTarget(x)
  ELSE IF x.phase = "warnings" THEN formatWarnings(x)
  ELSE x

\* results handed to format
FormatDependencies ==
  { [filePath |-> <<"p", ".ts">>, relativePath |-> <<"p">>, content |-> <<"x">>],
    [filePath |-> <<"p", ".ts">>, relativePath |-> <<"p2">>,
     content |-> <<"SP", "x", "CR", "LF", "y", "CR", "z", "LF">>],
    [filePath |-> <<"q", ".ts">>, relativePath |-> <<"q">>, content |-> <<"LF", "x">>] }

FormatTargets ==
  { [filePath |-> fp, relativePath |-> rp, content |-> <<"t", "CR">>] :
      fp \in {<<>>, <<"t", ".ts">>}, rp \in {<<>>, <<"t">>} }

FormatErrors == {<<"e1">>, <<"e2">>}

SeqsUpTo(S, n) == UNION {[1..k -> S] : k \in 0..n}

FormatResults ==
  { [dependencies |-> d, targetFragment |-> t, errors |-> e] :
      d \in SeqsUpTo(FormatDependencies, MaxDeps), t \in FormatTargets,
      e \in SeqsUpTo(FormatErrors, MaxErrors) }

IncludeCommentsOptions == {"true", "false", "undefined"}

\* --------------------------------------- TypeScriptPlugin.extractFragment
\* A document: its text (characters, LF for '\n') and the nodes of its AST
\* below the SourceFile node in depth-first order, each with getStart(),
\* getEnd() and its kind ("function" and "variable" are declarations, "block"
\* is not).
DocumentText == <<"a", "b", "LF", "c", "d", "e", "LF", "f", "g", "h">>

NodeSpans == {<<0, 10>>, <<0, 9>>, <<0, 8>>, <<1, 9>>, <<3, 6>>, <<4, 5>>, <<7, 10>>}
NodeKinds == {"function", "block"}
AstNodes == {[start |-> sp[1], end |-> sp[2], kind |-> k] : sp \in NodeSpans, k \in NodeKinds}

\* depth-first order of a tree of spans: a later node lies inside an earlier
\* one or after it
DepthFirst(nodes) ==
  \A i \in DOMAIN nodes : \A j \in DOMAIN nodes :
    i < j => \/ (nodes[i].start <= nodes[j].start /\ nodes[j].end <= nodes[i].end)
             \/ nodes[i].end <= nodes[j].start

Documents ==
  {[content |-> DocumentText, nodes |-> ns] :
     ns \in {n \in SeqsUpTo(AstNodes, MaxNodes) : DepthFirst(n)}}

\* vscode positions (line, character) and ranges
Position(line, character) == [line |-> line, character |-> character]
Positions == {Position(0, 0), Position(1, 1), Position(1, 2), Position(2, 1), Position(2, 3)}
PositionLE(p, q) == p.line < q.line \/ (p.line = q.line /\ p.character <= q.character)
DocumentRanges ==
  {r \in [start : Positions, end : Positions] : PositionLE(r.start, r.end)}

RECURSIVE splitLines(_)
\* content.split('\n')
splitLines(text) ==
  IF "LF" \notin Range(text) THEN <<text>>
  ELSE LET k == CHOOSE i \in DOMAIN text : text[i] = "LF" /\ \A j \in 1..(i - 1) : text[j] # "LF"
       IN <<SubSeq(text, 1, k - 1)>> \o splitLines(SubSeq(text, k + 1, Len(text)))

RECURSIVE joinLines(_)
\* lines.join('\n')
joinLines(lines) ==
  IF lines = <<>> THEN <<>>
  ELSE IF Len(lines) = 1 THEN lines[1]
  ELSE lines[1] \o <<"LF">> \o joinLines(Tail(lines))

RECURSIVE offsetOfLine(_, _)
\* the sum of lines[i].length + 1 over the lines before `line`
offsetOfLine(lines, line) ==
  IF line = 0 \/ lines = <<>> THEN 0
  ELSE Len(lines[1]) + 1 + offsetOfLine(Tail(lines), line - 1)

\* sourceFile.getPositionOfLineAndCharacter(line, character)
getPositionOfLineAndCharacter(content, position) ==
  offsetOfLine(splitLines(content), position.line) + position.character

Min(a, b) == IF a <= b THEN a ELSE b
Max(a, b) == IF a >= b THEN a ELSE b

\* content.substring(start, end)
substring(content, start, end) == SubSeq(content, start + 1, end)

\* lines.slice(startLine, endLine + 1).join('\n')
selectedLines(content, range) ==
  LET lines == splitLines(content)
  IN joinLines(SubSeq(lines, range.start.line + 1, Min(range.end.line + 1, Len(lines))))

isDeclaration(node) == node.kind \in {"function", "variable"}

getNodeType(node, requestedType) ==
  IF node.kind = "function" THEN "function" ELSE requestedType

IdleFragmentExtraction ==
  [phase |-> "idle", document |-> [content |-> <<>>, nodes |-> <<>>],
   range |-> [start |-> Position(0, 0), end |-> Position(0, 0)],
   startPos |-> 0, endPos |-> 0, i |-> 1, candidates |-> <<>>,
   out |-> [content |-> <<>>, type |-> "", node |-> 0]]

\* positions of the range, kept inside the file
extractFragmentBegin(document, range) ==
  LET length == Len(document.content)
      startPos == Max(0, Min(getPositionOfLineAndCharacter(document.content, range.start), length))
      endPos == Max(startPos, Min(getPositionOfLineAndCharacter(document.content, range.end), length))
  IN [IdleFragmentExtraction EXCEPT
        !.phase = "collect", !.document = document, !.range = range,
        !.startPos = startPos, !.endPos = endPos]

\* collectContainingDeclarations on one node
collectContaining(x) ==
  LET node == x.document.nodes[x.i]
      contains == node.start <= x.startPos /\ node.end >= x.endPos
  IN [x EXCEPT !.i = @ + 1,
               !.candidates = IF contains /\ isDeclaration(node) THEN Append(@, x.i) ELSE @]

\* mutant: the largest candidate comes first
smallestFirstNot(nodes, candidates) ==
  LET size(n) == nodes[n].end - nodes[n].start
  IN CHOOSE i \in DOMAIN candidates :
       /\ \A j \in DOMAIN candidates : size(candidates[i]) >= size(candidates[j])
       /\ \A j \in 1..(i - 1) : size(candidates[j]) < size(candidates[i])

\* candidates.sort by size (stable), then the first: its index in candidates
smallestFirst(nodes, candidates) ==
  LET size(n) == nodes[n].end - nodes[n].start
  IN CHOOSE i \in DOMAIN candidates :
       /\ \A j \in DOMAIN candidates : size(candidates[i]) <= size(candidates[j])
       /\ \A j \in 1..(i - 1) : size(candidates[j]) > size(candidates[i])

\* `nodeRatio > 0.8` on integers
tooLarge(nodeSize, fileSize) == 5 * nodeSize > 4 * fileSize

selectionFallback(x) ==
  [content |-> selectedLines(x.document.content, x.range), type |-> "selection", node |-> 0]

\* the choice of the target node and the returned fragment
chooseFragment(x) ==
  LET content == x.document.content
      returned(out) == [x EXCEPT !.phase = "done", !.out = out]
  IN IF x.candidates = <<>> THEN returned(selectionFallback(x))
     ELSE
       LET n == x.candidates[smallestFirst(x.document.nodes, x.candidates)]
           node == x.document.nodes[n]
       IN IF node.start = 0 /\ node.end >= Len(content) - 1 THEN returned(selectionFallback(x))
          ELSE IF ~isDeclaration(node) THEN returned(selectionFallback(x))
          ELSE IF tooLarge(node.end - node.start, Len(content)) THEN returned(selectionFallback(x))
          ELSE returned([content |-> substring(content, node.start, node.end),
                         type |-> getNodeType(node, "selection"),
                         node |-> n])

fragmentStep(x) ==
  IF x.phase = "collect" /\ x.i <= Len(x.document.nodes) THEN collectContaining(x)
  ELSE IF x.phase = "collect" THEN chooseFragment(x)
  ELSE x

\* ---------------------------------------------------------------- actions
Cur == [resolver |-> resolver, call |-> call, trace |-> trace]

\* ------------------------------------------ extension.ts, the copy command
\* Number.MAX_SAFE_INTEGER, as the largest integer of the model
MAX_SAFE_INTEGER == 2147483647

Uris == {"file:///a.ts", "file:///b.ts"}

\* vscode.Selection and vscode.Range
Selection(anchor, active) == [anchor |-> anchor, active |-> active]
isEmpty(selection) == selection.anchor = selection.active
EditorRange(start, end) == [start |-> start, end |-> end]
selectionRange(selection) ==
  IF PositionLE(selection.anchor, selection.active)
    THEN EditorRange(selection.anchor, selection.active)
    ELSE EditorRange(selection.active, selection.anchor)
rangeContains(range, position) ==
  PositionLE(range.start, position) /\ PositionLE(position, range.end)

DocumentSymbol(kind, range, children) ==
  [kind |-> kind, range |-> range, children |-> children]

\* what the document symbol provider and getWordRangeAtPosition answer for
\* a document of three lines:
\*   no symbol, one word on line 1
\*   a class over lines 0..2 with a method on line 1
\*   a function on line 1 with a function nested in it on the same line
\*   a class over lines 0..2 with a constructor on line 1
EditorDocuments ==
  { [symbols |-> <<>>,
     words |-> {EditorRange(Position(1, 1), Position(1, 2))}, lineCount |-> 3],
    [symbols |-> <<DocumentSymbol("Class", EditorRange(Position(0, 0), Position(2, 1)),
                     <<DocumentSymbol("Method", EditorRange(Position(1, 0), Position(1, 3)), <<>>)>>)>>,
     words |-> {EditorRange(Position(1, 1), Position(1, 2))}, lineCount |-> 3],
    [symbols |-> <<DocumentSymbol("Function", EditorRange(Position(1, 0), Position(1, 3)),
                     <<DocumentSymbol("Function", EditorRange(Position(1, 1), Position(1, 2)), <<>>)>>)>>,
     words |-> {EditorRange(Position(1, 1), Position(1, 2))}, lineCount |-> 3],
    [symbols |-> <<DocumentSymbol("Class", EditorRange(Position(0, 0), Position(2, 1)),
                     <<DocumentSymbol("Constructor", EditorRange(Position(1, 0), Position(1, 3)), <<>>)>>)>>,
     words |-> {}, lineCount |-> 3] }
NoDocument == [symbols |-> <<>>, words |-> {}, lineCount |-> 0]

Cursors == {Position(0, 0), Position(1, 0), Position(1, 1), Position(2, 1)}
EditorSelections ==
  {Selection(p, p) : p \in Cursors} \cup {Selection(Position(0, 0), Position(1, 1))}
SelectionChangeKinds == {"Keyboard", "Mouse"}

\* collect(symbols): the symbols and their children, parents first
RECURSIVE collect(_)
collect(items) ==
  IF items = <<>> THEN <<>>
  ELSE <<Head(items)>> \o collect(Head(items).children) \o collect(Tail(items))

allowedKinds == {"Function", "Method", "Class", "Interface", "Enum", "Variable", "Module"}
rangeSize(range) == range.end.line - range.start.line

\* the range found, in a sequence that is empty for null
getSymbolRangeAtPosition(document, position) ==
  LET flat == collect(document.symbols)
      keep(sym) == rangeContains(sym.range, position) /\ sym.kind \in allowedKinds
      containing == SelectSeq(flat, keep)
      first == CHOOSE i \in DOMAIN containing :
                 /\ \A j \in DOMAIN containing :
                      rangeSize(containing[i].range) <= rangeSize(containing[j].range)
                 /\ \A j \in 1..(i - 1) :
                      rangeSize(containing[j].range) > rangeSize(containing[i].range)
  IN IF containing = <<>> THEN <<>> ELSE <<containing[first].range>>

getWordRangeAtPosition(document, position) ==
  LET found == {w \in document.words : rangeContains(w, position)}
  IN IF found = {} THEN <<>> ELSE <<CHOOSE w \in found : TRUE>>

makeFullFileFragment(document) ==
  [type |-> "file",
   range |-> EditorRange(Position(0, 0), Position(document.lineCount - 1, MAX_SAFE_INTEGER))]
makeRangeFragment(range) == [type |-> "selection", range |-> range]
NoEditorFragment == [type |-> "", range |-> EditorRange(Position(0, 0), Position(0, 0))]

\* lastMouseSelections.get(uri) || selection, then its active end
anchorPosition(lastMouseSelections, uri, selection) ==
  IF MapHas(lastMouseSelections, uri)
    THEN MapGet(lastMouseSelections, uri).active
    ELSE selection.active

\* the branch of copyWithDependencies for an empty selection
fragmentAtAnchor(document, anchor) ==
  LET symbolRange == getSymbolRangeAtPosition(document, anchor)
      wordRange == getWordRangeAtPosition(document, anchor)
  IN IF symbolRange # <<>> THEN makeRangeFragment(symbolRange[1])
     ELSE IF wordRange # <<>> THEN makeRangeFragment(wordRange[1])
     ELSE makeFullFileFragment(document)

\* the window: the active editor's document, the selection of each open
\* document, the map the selection listener fills, the selection events so
\* far, and the fragment of the last copy (copied: no event since)
NoEditor ==
  [active |-> "", document |-> NoDocument, selections |-> <<>>,
   lastMouseSelections |-> <<>>, events |-> <<>>, copied |-> FALSE,
   fragment |-> NoEditorFragment]

Install(c) ==
  /\ resolver' = c.resolver
  /\ call' = c.call
  /\ trace' = c.trace
  /\ UNCHANGED <<disk, peer, localExtraction, formatting, fragmentExtraction, editor>>

Tick(c) == [c EXCEPT !.trace.steps = @ + 1]
SortTick(c) == [c EXCEPT !.trace.steps = @ + 1, !.trace.sortSteps = @ + 1]

Init ==
  /\ disk \in Disks
  /\ resolver = NewResolver
  /\ call = IdleCall
  /\ trace = NewTrace
  /\ peer = NoPeer
  /\ localExtraction = IdleExtraction
  /\ formatting = IdleFormat
  /\ fragmentExtraction = IdleFragmentExtraction
  /\ editor = NoEditor

\* resolver.resolve(fragment, options) on a newly constructed instance
Resolve(fragment, options) ==
  /\ call.phase = "idle"
  /\ Install(resolveBegin(Cur, fragment, options))

\* a further resolve on the same instance, after the previous one returned
ResolveAgain(fragment, options) ==
  /\ call.phase = "done"
  /\ Install(resolveBegin(Cur, fragment, options))

Enter == canEnter(Cur) /\ Install(Tick(enterStep(Cur)))
Import == canImport(Cur) /\ Install(Tick(importStep(Cur)))
Return == canReturn(Cur) /\ Install(Tick(returnStep(Cur)))
SortBegin == canSortBegin(Cur) /\ Install(Tick(sortBegin(Cur)))
SortNextKey == canNextKey(Cur) /\ Install(SortTick(sortNextKey(Cur)))
VisitStep == canVisitStep(Cur) /\ Install(SortTick(visitStep(Cur)))
VisitFinish == canVisitFinish(Cur) /\ Install(SortTick(visitFinish(Cur)))
ResolveEnd == canResolveEnd(Cur) /\ Install(SortTick(resolveEnd(Cur)))

Progress ==
  \/ Enter
  \/ Import
  \/ Return
  \/ SortBegin
  \/ SortNextKey
  \/ VisitStep
  \/ VisitFinish
  \/ ResolveEnd

Next ==
  \/ \E fragment \in Fragments, options \in OptionSet : Resolve(fragment, options)
  \/ Progress

Spec == Init /\ [][Next]_vars

\* calls that differ in includeExternal only, over files that import 'b', a
\* bare specifier, next to b.ts
ExternalSpecifiers == {Rel("b"), Bare("b"), Bare("fs")}
ExternalDisks == DiskFamily(ExternalSpecifiers, {NoDefect})
ExternalOptionSet == {[maxDepth |-> Undefined, includeExternal |-> e] : e \in BOOLEAN}

ExternalInit ==
  /\ disk \in ExternalDisks
  /\ resolver = NewResolver
  /\ call = IdleCall
  /\ trace = NewTrace
  /\ peer = NoPeer
  /\ localExtraction = IdleExtraction
  /\ formatting = IdleFormat
  /\ fragmentExtraction = IdleFragmentExtraction
  /\ editor = NoEditor

ExternalNext ==
  \/ \E options \in ExternalOptionSet : Resolve(Fragment(TsFile("a"), "typescript"), options)
  \/ Progress

ExternalSpec == ExternalInit /\ [][ExternalNext]_vars

\* the copy command on its own
EditorInit ==
  /\ disk = MakeDisk([n \in Names |-> <<>>], NoDefect)
  /\ resolver = NewResolver
  /\ call = IdleCall
  /\ trace = NewTrace
  /\ peer = NoPeer
  /\ localExtraction = IdleExtraction
  /\ formatting = IdleFormat
  /\ fragmentExtraction = IdleFragmentExtraction
  /\ \E document \in EditorDocuments, uri \in Uris :
       editor = [NoEditor EXCEPT !.active = uri, !.document = document]

\* onDidChangeTextEditorSelection: the editor of `uri` gets the selection,
\* and the listener records it when the event is of kind Mouse
ChangeSelection(uri, kind, selection) ==
  /\ Len(editor.events) < MaxEvents
  /\ editor' =
       [editor EXCEPT
          !.selections = MapSet(@, uri, selection),
          !.lastMouseSelections = IF kind = "Mouse" THEN MapSet(@, uri, selection) ELSE @,
          !.events = Append(@, [uri |-> uri, kind |-> kind, selection |-> selection]),
          !.copied = FALSE]
  /\ UNCHANGED <<disk, resolver, call, trace, peer, localExtraction, formatting,
                 fragmentExtraction>>

\* the other document becomes the active editor's
SwitchEditor(uri) ==
  /\ uri # editor.active
  /\ editor' = [editor EXCEPT !.active = uri, !.copied = FALSE]
  /\ UNCHANGED <<disk, resolver, call, trace, peer, localExtraction, formatting,
                 fragmentExtraction>>

\* editor.selection: a document nothing was selected in has its cursor at
\* the start
currentSelection(e) ==
  IF MapHas(e.selections, e.active) THEN MapGet(e.selections, e.active)
  ELSE Selection(Position(0, 0), Position(0, 0))

\* the command with an empty selection, up to the fragment it resolves
CopyAtCursor ==
  /\ ~editor.copied
  /\ isEmpty(currentSelection(editor))
  /\ editor' =
       [editor EXCEPT
          !.copied = TRUE,
          !.fragment = fragmentAtAnchor(editor.document,
                         anchorPosition(editor.lastMouseSelections, editor.active,
                                        currentSelection(editor)))]
  /\ UNCHANGED <<disk, resolver, call, trace, peer, localExtraction, formatting,
                 fragmentExtraction>>

\* the command with a selection: whatever extractFragment answers, the
\* fragment carries the selection as its range
CopySelection(type) ==
  /\ ~editor.copied
  /\ ~isEmpty(currentSelection(editor))
  /\ editor' =
       [editor EXCEPT
          !.copied = TRUE,
          !.fragment = [type |-> type, range |-> selectionRange(currentSelection(editor))]]
  /\ UNCHANGED <<disk, resolver, call, trace, peer, localExtraction, formatting,
                 fragmentExtraction>>

EditorNext ==
  \/ \E uri \in Uris, kind \in SelectionChangeKinds, selection \in EditorSelections :
       ChangeSelection(uri, kind, selection)
  \/ \E uri \in Uris : SwitchEditor(uri)
  \/ CopyAtCursor
  \/ \E type \in {"selection", "function"} : CopySelection(type)

EditorSpec == EditorInit /\ [][EditorNext]_vars

\* four files a.ts .. d.ts, each importing files of later names only (at most
\* two, in either order), resolved from a.ts with maxDepth of 1 and more
DepthNames == <<"a", "b", "c", "d">>
LaterSpecifiers(i) == {Rel(DepthNames[j]) : j \in (i + 1)..Len(DepthNames)}
LaterImports(i) ==
  {<<>>} \cup {<<x>> : x \in LaterSpecifiers(i)}
         \cup {<<v[1], v[2]>> : v \in {w \in LaterSpecifiers(i) \X LaterSpecifiers(i) : w[1] # w[2]}}
DepthDisks ==
  { [p \in {TsFile(DepthNames[i]) : i \in DOMAIN DepthNames} |->
       Entry("file", TRUE, FALSE,
             t[CHOOSE i \in DOMAIN DepthNames : TsFile(DepthNames[i]) = p])] :
      t \in {u \in [DOMAIN DepthNames -> UNION {LaterImports(i) : i \in DOMAIN DepthNames}] :
               \A i \in DOMAIN DepthNames : u[i] \in LaterImports(i)} }
DepthOptionSet ==
  {[maxDepth |-> d, includeExternal |-> FALSE] : d \in 1..(MaxDepthOpt + 1)}

DepthInit ==
  /\ disk \in DepthDisks
  /\ resolver = NewResolver
  /\ call = IdleCall
  /\ trace = NewTrace
  /\ peer = NoPeer
  /\ localExtraction = IdleExtraction
  /\ formatting = IdleFormat
  /\ fragmentExtraction = IdleFragmentExtraction
  /\ editor = NoEditor

DepthNext ==
  \/ \E options \in DepthOptionSet : Resolve(Fragment(TsFile("a"), "typescript"), options)
  \/ Progress

DepthSpec == DepthInit /\ [][DepthNext]_vars

\* calls that follow one another on one instance
ReuseInit ==
  /\ disk \in ReuseDisks
  /\ resolver = NewResolver
  /\ call = IdleCall
  /\ trace = NewTrace
  /\ peer = NoPeer
  /\ localExtraction = IdleExtraction
  /\ formatting = IdleFormat
  /\ fragmentExtraction = IdleFragmentExtraction
  /\ editor = NoEditor

ReuseNext ==
  \/ \E fragment \in ReuseFragments, options \in ReuseOptionSet : Resolve(fragment, options)
  \/ \E fragment \in ReuseFragments, options \in ReuseOptionSet : ResolveAgain(fragment, options)
  \/ Progress

ReuseSpec == ReuseInit /\ [][ReuseNext]_vars

\* plugin.extractLocalDependencies on its own, over the generated sources
LocalInit ==
  /\ disk = MakeDisk([n \in Names |-> <<>>], NoDefect)
  /\ resolver = NewResolver
  /\ call = IdleCall
  /\ trace = NewTrace
  /\ peer = NoPeer
  /\ localExtraction = IdleExtraction
  /\ formatting = IdleFormat
  /\ fragmentExtraction = IdleFragmentExtraction
  /\ editor = NoEditor

ExtractLocal(sf, range) ==
  /\ localExtraction' = extractBegin(sf, range)
  /\ UNCHANGED <<disk, resolver, call, trace, peer, formatting, fragmentExtraction, editor>>

ExtractionAt(phase, hasQueue) ==
  /\ localExtraction.phase = phase
  /\ (localExtraction.queue # <<>>) = hasQueue
  /\ localExtraction' = extractionStep(localExtraction, TsFile("a"))
  /\ UNCHANGED <<disk, resolver, call, trace, peer, formatting, fragmentExtraction, editor>>

CollectFromRange == ExtractionAt("range", FALSE)
CollectFromUsage == ExtractionAt("usage", FALSE)
ClosureStep == ExtractionAt("closure", TRUE)
EmitLocal == ExtractionAt("closure", FALSE)

LocalNext ==
  \/ /\ localExtraction.phase = "idle"
     /\ \E sf \in SourceFiles : \E range \in SelectionsOf(sf) : ExtractLocal(sf, range)
  \/ CollectFromRange
  \/ CollectFromUsage
  \/ ClosureStep
  \/ EmitLocal

LocalSpec == LocalInit /\ [][LocalNext]_vars

\* plugin.extractLocalDependencies over the sources written statement by
\* statement, with selections of several statements
DeclarationNext ==
  \/ /\ localExtraction.phase = "idle"
     /\ \E sf \in DeclarationSources : \E range \in RunsOf(sf) :
          range.start <= range.end /\ ExtractLocal(sf, range)
  \/ CollectFromRange
  \/ CollectFromUsage
  \/ ClosureStep
  \/ EmitLocal

DeclarationSpec == LocalInit /\ [][DeclarationNext]_vars

\* resolve of a fragment made from a selection in a.ts
RangeImports ==
  { [n \in Names |-> <<>>],
    [n \in Names |-> IF n = "a" THEN <<Rel("b")>> ELSE <<>>],
    [n \in Names |-> IF n = "a" THEN <<Rel("b"), Rel("c")>> ELSE <<>>],
    [n \in Names |-> IF n = "c" THEN <<>> ELSE <<Rel("c")>>] }

\* sources whose references lie in foo and in the expression statement
RangeSources ==
  {SourceFile(Containers, S, NoShadow) :
     S \in {U \in SlotSets : \A slot \in U : slot.in \in {"foo", "main"}}}

RangeDisks ==
  {[MakeDisk(imports, NoDefect) EXCEPT ![TsFile("a")].source = sf] :
     imports \in RangeImports, sf \in RangeSources}
  \cup {MakeDisk(imports, [name |-> "a", kind |-> "unreadable"]) : imports \in RangeImports}

RangeInit ==
  /\ disk \in RangeDisks
  /\ resolver = NewResolver
  /\ call = IdleCall
  /\ trace = NewTrace
  /\ peer = NoPeer
  /\ localExtraction = IdleExtraction
  /\ formatting = IdleFormat
  /\ fragmentExtraction = IdleFragmentExtraction
  /\ editor = NoEditor

\* the selections of a.ts: those of its source, or (unreadable) a stale one
RangesOf(d) ==
  IF d[TsFile("a")].source = NoSource THEN {Span(0, 1)}
  ELSE SelectionsOf(d[TsFile("a")].source)

RangeNext ==
  \/ /\ call.phase = "idle"
     /\ \E range \in RangesOf(disk) :
          Resolve(RangeFragment(TsFile("a"), "typescript", range), NoOptions)
  \/ Progress

RangeSpec == RangeInit /\ [][RangeNext]_vars

\* CodeFormatter.format on its own
FormatInit ==
  /\ disk = MakeDisk([n \in Names |-> <<>>], NoDefect)
  /\ resolver = NewResolver
  /\ call = IdleCall
  /\ trace = NewTrace
  /\ peer = NoPeer
  /\ localExtraction = IdleExtraction
  /\ formatting = IdleFormat
  /\ fragmentExtraction = IdleFragmentExtraction
  /\ editor = NoEditor

Format(result, option) ==
  /\ formatting' = formatBegin(result, option)
  /\ UNCHANGED <<disk, resolver, call, trace, peer, localExtraction, fragmentExtraction, editor>>

FormatAt(phase, inLoop) ==
  /\ formatting.phase = phase
  /\ (formatting.i <= Len(formatting.result.dependencies)) = inLoop
  /\ formatting' = formatStep(formatting)
  /\ UNCHANGED <<disk, resolver, call, trace, peer, localExtraction, fragmentExtraction, editor>>

FormatDependency == FormatAt("dependencies", TRUE)
FormatTarget == FormatAt("dependencies", FALSE)
FormatWarnings == FormatAt("warnings", FALSE)

FormatNext ==
  \/ /\ formatting.phase = "idle"
     /\ \E result \in FormatResults, option \in IncludeCommentsOptions : Format(result, option)
  \/ FormatDependency
  \/ FormatTarget
  \/ FormatWarnings

FormatSpec == FormatInit /\ [][FormatNext]_vars

\* ---- two invocations whose resolve calls interleave at their awaits
ConcurrentImports ==
  { [n \in Names |-> <<>>],
    [n \in Names |-> IF n = "a" THEN <<Rel("b")>> ELSE <<>>],
    [n \in Names |-> IF n = "a" THEN <<Rel("b")>> ELSE IF n = "b" THEN <<Rel("c")>> ELSE <<>>],
    [n \in Names |-> IF n = "a" THEN <<Rel("b"), Rel("c")>> ELSE <<>>],
    [n \in Names |-> IF n = "a" THEN <<Rel("b")>> ELSE IF n = "b" THEN <<Rel("a")>> ELSE <<>>],
    [n \in Names |-> IF n = "c" THEN <<>> ELSE <<Rel("c")>>] }

ConcurrentDisks == {MakeDisk(imports, NoDefect) : imports \in ConcurrentImports}

\* the options the command passes: maxDepth 10, includeExternal false
CommandOptions == [maxDepth |-> DefaultMaxDepth, includeExternal |-> FALSE]

ConcurrentInit ==
  /\ disk \in ConcurrentDisks
  /\ resolver = NewResolver
  /\ call = IdleCall
  /\ trace = NewTrace
  /\ peer = NoPeer
  /\ localExtraction = IdleExtraction
  /\ formatting = IdleFormat
  /\ fragmentExtraction = IdleFragmentExtraction
  /\ editor = NoEditor

\* the invocation that takes the step: the first one lives in resolver, call
\* and trace, the second one in peer, on the first one's instance if shared
Invocation(second, shared) ==
  IF second
    THEN [resolver |-> IF shared THEN resolver ELSE peer.resolver,
          call |-> peer.call, trace |-> peer.trace]
    ELSE Cur

OtherCall(second) == IF second THEN call ELSE peer.call

InstallInvocation(second, shared, c, overlaps) ==
  /\ resolver' = IF second /\ ~shared THEN resolver ELSE c.resolver
  /\ call' = IF second THEN call ELSE c.call
  /\ trace' = IF second THEN trace ELSE c.trace
  /\ peer' = [peer EXCEPT
                !.resolver = IF second /\ ~shared THEN c.resolver ELSE @,
                !.call = IF second THEN c.call ELSE @,
                !.trace = IF second THEN c.trace ELSE @,
                !.overlapped = @ \/ overlaps]
  /\ UNCHANGED <<disk, localExtraction, formatting, fragmentExtraction, editor>>

StartResolve(second, shared, fragment) ==
  /\ Invocation(second, shared).call.phase = "idle"
  /\ InstallInvocation(second, shared,
                       resolveUntilAwait(Invocation(second, shared), fragment, CommandOptions),
                       OtherCall(second).phase = "traverse")

GraphInit(second, shared) ==
  /\ atParsed(Invocation(second, shared))
  /\ InstallInvocation(second, shared, graphInit(Invocation(second, shared)), FALSE)

ImportUntilAwait(second, shared) ==
  /\ canImport(Invocation(second, shared))
  /\ InstallInvocation(second, shared, importUntilAwait(Invocation(second, shared)), FALSE)

ImportAfterAwait(second, shared) ==
  /\ atAsked(Invocation(second, shared))
  /\ InstallInvocation(second, shared, importAfterAwait(Invocation(second, shared)), FALSE)

ReturnToCaller(second, shared) ==
  /\ canReturn(Invocation(second, shared))
  /\ InstallInvocation(second, shared, returnStep(Invocation(second, shared)), FALSE)

FinishResolve(second, shared) ==
  /\ canSortBegin(Invocation(second, shared))
  /\ InstallInvocation(second, shared, resolveFinish(Invocation(second, shared)), FALSE)

ConcurrentNext(shared) ==
  \/ \E second \in BOOLEAN, n \in Names :
       StartResolve(second, shared, Fragment(TsFile(n), "typescript"))
  \/ \E second \in BOOLEAN : GraphInit(second, shared)
  \/ \E second \in BOOLEAN : ImportUntilAwait(second, shared)
  \/ \E second \in BOOLEAN : ImportAfterAwait(second, shared)
  \/ \E second \in BOOLEAN : ReturnToCaller(second, shared)
  \/ \E second \in BOOLEAN : FinishResolve(second, shared)

\* the command: every invocation works on the instance it constructs
CommandNext == ConcurrentNext(~constructsResolver)
CommandSpec == ConcurrentInit /\ [][CommandNext]_vars

\* two resolve calls on one DependencyResolver
SharedNext == ConcurrentNext(TRUE)
SharedSpec == ConcurrentInit /\ [][SharedNext]_vars

\* plugin.extractFragment on its own
FragmentInit ==
  /\ disk = MakeDisk([n \in Names |-> <<>>], NoDefect)
  /\ resolver = NewResolver
  /\ call = IdleCall
  /\ trace = NewTrace
  /\ peer = NoPeer
  /\ localExtraction = IdleExtraction
  /\ formatting = IdleFormat
  /\ fragmentExtraction = IdleFragmentExtraction
  /\ editor = NoEditor

ExtractFragment(document, range) ==
  /\ fragmentExtraction' = extractFragmentBegin(document, range)
  /\ UNCHANGED <<disk, resolver, call, trace, peer, localExtraction, formatting, editor>>

FragmentAt(inLoop) ==
  /\ fragmentExtraction.phase = "collect"
  /\ (fragmentExtraction.i <= Len(fragmentExtraction.document.nodes)) = inLoop
  /\ fragmentExtraction' = fragmentStep(fragmentExtraction)
  /\ UNCHANGED <<disk, resolver, call, trace, peer, localExtraction, formatting, editor>>

CollectContaining == FragmentAt(TRUE)
ChooseFragment == FragmentAt(FALSE)

FragmentNext ==
  \/ /\ fragmentExtraction.phase = "idle"
     /\ \E document \in Documents, range \in DocumentRanges : ExtractFragment(document, range)
  \/ CollectContaining
  \/ ChooseFragment

FragmentSpec == FragmentInit /\ [][FragmentNext]_vars

\* ------------------------------------------------- vocabulary of the claims
\* resolve has returned from a call that found a plugin
Returned == call.phase = "done" /\ call.plugin # NoPlugin

DepPaths == [i \in DOMAIN call.result.dependencies |-> call.result.dependencies[i].filePath]
Count(seq, x) == Cardinality({i \in DOMAIN seq : seq[i] = x})
PosOf(seq, x) == CHOOSE i \in DOMAIN seq : seq[i] = x

CacheKeys == Range(MapKeys(resolver.resolvedDependencies))
GraphKeys == Range(MapKeys(resolver.dependencyGraph))
\* the recorded edges A -> B: A imports B
Edges == {<<A, B>> \in GraphKeys \X DOMAIN disk : B \in Range(graphDeps(resolver, A))}
GraphNodes == GraphKeys \cup {e[2] : e \in Edges}

RECURSIVE ReachableFrom(_)
ReachableFrom(S) ==
  LET T == S \cup {e[2] : e \in {d \in Edges : d[1] \in S}}
  IN IF T = S THEN S ELSE ReachableFrom(T)

Cyclic == \E e \in Edges : e[1] \in ReachableFrom({e[2]})

RECURSIVE SumOver(_, _)
SumOver(S, f) ==
  IF S = {} THEN 0 ELSE LET x == CHOOSE y \in S : TRUE IN f[x] + SumOver(S \ {x}, f)

\* import entries on the disk, and the steps a call may take at most: one
\* entry and one return per frame, one step per import entry, and the sort
DiskImports == SumOver(DOMAIN disk, [p \in DOMAIN disk |-> Len(disk[p].imports)])
StepBound == 4 * Cardinality(DOMAIN disk) + 2 * DiskImports + 4
SortStepBound == Len(resolver.dependencyGraph) + Cardinality(GraphNodes) + Cardinality(Edges) + 1

StepEnabled ==
  \/ canEnter(Cur) \/ canImport(Cur) \/ canReturn(Cur) \/ canSortBegin(Cur)
  \/ canNextKey(Cur) \/ canVisitStep(Cur) \/ canVisitFinish(Cur) \/ canResolveEnd(Cur)

\* C1: when the recorded adjacency map is acyclic, for every recorded edge
\* A -> B whose two ends have a resolved Dependency, B's Dependency stands
\* strictly before A's in the sequence topologicalSort returns.
C1_TopologicalOrder ==
  (Returned /\ ~Cyclic) =>
    \A e \in Edges :
      (e[1] \in CacheKeys /\ e[2] \in CacheKeys) =>
        /\ Count(DepPaths, e[1]) = 1
        /\ Count(DepPaths, e[2]) = 1
        /\ PosOf(DepPaths, e[2]) < PosOf(DepPaths, e[1])

\* a.ts imports b.ts and c.ts, b.ts imports c.ts: no cycle, and the edge
\* b -> c lies between two resolved files
C1_Witness ==
  /\ Returned /\ ~Cyclic
  /\ <<TsFile("b"), TsFile("c")>> \in Edges
  /\ <<TsFile("a"), TsFile("c")>> \in Edges
  /\ {TsFile("b"), TsFile("c")} \subseteq CacheKeys

\* C2: when the recorded adjacency map contains a cycle, the sort takes no
\* more steps than keys + nodes + edges + 1 and can always take its next
\* step until it returns, and the returned sequence holds every resolved
\* Dependency exactly once and nothing else.
C2_CyclicSortTotal ==
  Cyclic =>
    /\ call.phase = "sort" => StepEnabled
    /\ call.phase \in {"sort", "done"} => trace.sortSteps <= SortStepBound
    /\ Returned =>
         /\ \A k \in CacheKeys : Count(DepPaths, k) = 1
         /\ Len(DepPaths) = Len(resolver.resolvedDependencies)

\* the three-file cycle a -> b -> c -> a, sorted
C2_Witness ==
  /\ Returned
  /\ {<<TsFile("a"), TsFile("b")>>, <<TsFile("b"), TsFile("c")>>,
      <<TsFile("c"), TsFile("a")>>} \subseteq Edges
  /\ Len(DepPaths) = 3

\* x.ts imports y.ts, y.ts imports x.ts, both ordinary files (x = a, y = b)
ScenarioE ==
  /\ call.fragment.filePath = TsFile("a")
  /\ call.maxDepth >= 2
  /\ CanRead(TsFile("a")) /\ CanRead(TsFile("b"))
  /\ disk[TsFile("a")].imports = <<Rel("b")>>
  /\ disk[TsFile("b")].imports = <<Rel("a")>>

\* C3: a call of resolve takes at most StepBound steps and can always take
\* its next step until it returns; within the pass no file has its imports
\* parsed twice and the visited set holds exactly the parsed files; and for
\* x.ts importing y.ts importing x.ts the result holds x.ts and y.ts exactly
\* once each.
C3_ResolveTerminates ==
  /\ call.phase \in {"traverse", "sort"} => StepEnabled
  /\ trace.steps <= StepBound
  /\ \A p \in Range(trace.parsed) : Count(trace.parsed, p) = 1
  /\ call.phase # "idle" => resolver.visitedFiles = Range(trace.parsed)
  /\ (Returned /\ ScenarioE) =>
       /\ Len(DepPaths) = 2
       /\ Count(DepPaths, TsFile("a")) = 1
       /\ Count(DepPaths, TsFile("b")) = 1

C3_Witness == Returned /\ ScenarioE /\ Len(trace.parsed) = 2

\* the import entries (file, index) of processed files that resolve to p
ImportsInto(p) ==
  {<<f, i>> \in resolver.visitedFiles \X (1..MaxEdges) :
     i \in DOMAIN disk[f].imports /\ resolveImportPath(disk[f].imports[i], f) = p}

IsFile(p) == p \in DOMAIN disk /\ disk[p].kind = "file"

\* C4, as claimed: every file that two or more import entries of the
\* processed files resolve to appears exactly once in dependencies.
C4_EveryMultiImportOnce ==
  Returned =>
    \A p \in DOMAIN disk :
      (IsFile(p) /\ Cardinality(ImportsInto(p)) >= 2) => Count(DepPaths, p) = 1

\* C4, amended: no path appears twice in dependencies, and every readable,
\* non-empty file that two or more import entries of the processed files
\* resolve to appears exactly once.
C4_Deduplicated ==
  Returned =>
    /\ \A p \in Range(DepPaths) : Count(DepPaths, p) = 1
    /\ \A p \in DOMAIN disk :
         (/\ IsFile(p) /\ CanRead(p) /\ ~disk[p].empty
          /\ Cardinality(ImportsInto(p)) >= 2) => Count(DepPaths, p) = 1

\* c.ts is imported by a.ts and by b.ts, and is in the result
C4_Witness ==
  /\ Returned
  /\ \E x \in ImportsInto(TsFile("c")), y \in ImportsInto(TsFile("c")) :
       x[1] = TsFile("a") /\ y[1] = TsFile("b")
  /\ Count(DepPaths, TsFile("c")) = 1

\* C5, as claimed: with maxDepth = N passed, N >= 0, no dependency was
\* reached at a traversal depth greater than N (none at all for N = 0).
C5_DepthBound ==
  (Returned /\ call.options.maxDepth # Undefined) =>
    \A i \in DOMAIN DepPaths :
      MapGet(trace.depth, DepPaths[i]) <= call.options.maxDepth

\* C6: a call made on an instance that has served an earlier call returns
\* the result (dependencies in order, target fragment, errors) that the same
\* call returns on a newly constructed instance.
C6_NoLeak ==
  (call.phase = "done" /\ trace.previous # Null) =>
    /\ resolveFresh(call.fragment, call.options).phase = "done"
    /\ call.result = resolveFresh(call.fragment, call.options).result

\* a.ts resolved with two dependencies on the instance that resolved b.ts before
C6_Witness ==
  /\ call.phase = "done"
  /\ trace.previous = TsFile("b")
  /\ call.fragment.filePath = TsFile("a")
  /\ Len(DepPaths) >= 2

RegisteredLanguages == {plugins[i].languageId : i \in DOMAIN plugins}
SupportedExtensions == UNION {Range(plugins[i].fileExtensions) : i \in DOMAIN plugins}
UnknownLanguage == call.fragment.language \notin RegisteredLanguages
UnknownExtension == ExtOf(call.fragment.filePath) \notin SupportedExtensions
NoPluginErrors(errors) ==
  {i \in DOMAIN errors : errors[i].msg = "No plugin found for language"}

\* C7: with neither the language id nor the extension registered, resolve
\* returns no dependencies, exactly one error and the input fragment, reads
\* no file and leaves graph and cache empty; with an unknown language id and
\* a supported extension the call runs under a plugin registered for that
\* extension and reports no such error.
C7_PluginSelection ==
  /\ (call.phase # "idle" /\ UnknownLanguage /\ UnknownExtension) =>
       /\ call.phase = "done"
       /\ call.result.dependencies = <<>>
       /\ Len(call.result.errors) = 1
       /\ call.result.targetFragment = call.fragment
       /\ trace.reads = <<>>
       /\ resolver.dependencyGraph = <<>>
       /\ resolver.resolvedDependencies = <<>>
  /\ (call.phase # "idle" /\ UnknownLanguage /\ ~UnknownExtension) =>
       /\ ExtOf(call.fragment.filePath) \in Range(call.plugin.fileExtensions)
       /\ NoPluginErrors(call.errors) = {}
       /\ NoPluginErrors(call.result.errors) = {}

C7_Witness ==
  /\ call.phase = "done" /\ UnknownLanguage /\ UnknownExtension
  /\ Len(call.result.errors) = 1

\* the files of the dependency chain: the target and every file an import
\* entry of a processed file resolves to
ChainFiles ==
  {call.fragment.filePath} \cup {p \in DOMAIN disk : ImportsInto(p) # {}}

\* C8, as claimed: every file of the chain that exists but cannot be read
\* has an error message in the result.
C8_UnreadableReported ==
  Returned =>
    \A p \in ChainFiles :
      (IsFile(p) /\ ~disk[p].readable) =>
        \E i \in DOMAIN call.result.errors : call.result.errors[i].arg = p

\* an import entry that is external, or that no existing path matches
Dropped(f, i) ==
  \/ isExternalDependency(disk[f].imports[i])
  \/ \A q \in Range(Candidates(BasePath(disk[f].imports[i], f))) : q \notin DOMAIN disk

\* C9: with includeExternal false, a processed file that has dropped import
\* entries (external, or matching no existing path) has edges to exactly the
\* paths of its other entries, no candidate path of a dropped entry is in the
\* cache, and the result has no error.
C9_DroppedSilently ==
  (Returned /\ ~call.options.includeExternal) =>
    \A f \in resolver.visitedFiles :
      (\E i \in DOMAIN disk[f].imports : Dropped(f, i)) =>
        /\ Range(graphDeps(resolver, f)) =
             {resolveImportPath(disk[f].imports[i], f) :
                i \in {j \in DOMAIN disk[f].imports : ~Dropped(f, j)}}
        /\ \A i \in DOMAIN disk[f].imports :
             Dropped(f, i) =>
               \A q \in Range(Candidates(BasePath(disk[f].imports[i], f))) :
                 q \notin CacheKeys
        /\ call.result.errors = <<>>

\* a.ts imports 'fs' and then a resolvable file, whose edge is recorded
C9_Witness ==
  /\ Returned /\ ~call.options.includeExternal
  /\ TsFile("a") \in resolver.visitedFiles
  /\ Len(disk[TsFile("a")].imports) >= 2
  /\ disk[TsFile("a")].imports[1] = Bare("fs")
  /\ ~Dropped(TsFile("a"), 2)
  /\ Len(graphDeps(resolver, TsFile("a"))) = 1

RECURSIVE FirstExistingFile(_)
FirstExistingFile(cands) ==
  IF cands = <<>> THEN Null
  ELSE IF IsFile(Head(cands)) THEN Head(cands)
  ELSE FirstExistingFile(Tail(cands))

\* C10, as claimed: resolving a non-external specifier with base path P
\* yields the first existing file among P+ext, P, P/index+ext, or not-found.
C10_FirstExistingFile ==
  (trace.lastPath.made /\ ~isExternalDependency(trace.lastPath.importPath)) =>
    trace.lastPath.result =
      FirstExistingFile(Candidates(BasePath(trace.lastPath.importPath, trace.lastPath.fromFile)))

\* a.ts imports b.ts, b.ts imports c.ts, c.ts imports nothing; the whole
\* file a.ts is resolved with a depth limit above the length of the chain
ScenarioA ==
  /\ call.fragment.filePath = TsFile("a") /\ ~call.fragment.hasRange
  /\ call.maxDepth >= 2
  /\ \A n \in Names : CanRead(TsFile(n)) /\ ~disk[TsFile(n)].empty
  /\ disk[TsFile("a")].imports = <<Rel("b")>>
  /\ disk[TsFile("b")].imports = <<Rel("c")>>
  /\ disk[TsFile("c")].imports = <<>>

\* C12: for the chain a -> b -> c below the depth limit, resolving the whole
\* file a.ts returns dependencies exactly [c, b], no error, and the input
\* fragment unchanged as targetFragment.
C12_ChainResolved ==
  (Returned /\ ScenarioA) =>
    /\ DepPaths = <<TsFile("c"), TsFile("b")>>
    /\ call.result.targetFragment = call.fragment
    /\ call.result.errors = <<>>

C12_Witness == Returned /\ ScenarioA /\ Len(DepPaths) = 2

\* C17, as claimed: within one pass plugin.resolveDependency is invoked at
\* most once for any resolved path, paths that yield no Dependency included.
C17_ResolvedOnce ==
  \A p \in Range(trace.resolveCalls) : Count(trace.resolveCalls, p) = 1

\* ---- extractLocalDependencies
Extracted == localExtraction.phase = "done"
ExtractedNodes == {localExtraction.out[i].node : i \in DOMAIN localExtraction.out}
ExtractedNames ==
  UNION {Range(localExtraction.sourceFile.statements[n].names) : n \in ExtractedNodes}
DeclaredNames(sf) == UNION {Range(sf.statements[i].names) : i \in DOMAIN sf.statements}
TokensIn(sf, span) == {sf.tokens[k] : k \in {j \in DOMAIN sf.tokens : Within(sf.tokens[j], span)}}

\* the selection lies in function foo, which calls bar, declared after it; no
\* mention of bar lies in the selection; a statement outside foo mentions foo
\* together with baz
ScenarioC ==
  LET sf == localExtraction.sourceFile
      range == localExtraction.range
      foo == declarationByName(sf, "foo")
      bar == declarationByName(sf, "bar")
      baz == declarationByName(sf, "baz")
  IN /\ foo # 0 /\ bar # 0 /\ baz # 0
     /\ sf.statements[bar].start > sf.statements[foo].start
     /\ Within(range, StatementSpan(sf, foo))
     /\ \E t \in TokensIn(sf, StatementSpan(sf, foo)) : t.text = "bar" /\ t.role = "ref"
     /\ \A t \in Range(sf.tokens) : t.text = "bar" => ~Overlaps(t, range)
     /\ \E t \in Range(sf.tokens), u \in Range(sf.tokens) :
          /\ t.text = "foo" /\ t.role = "ref" /\ u.text = "baz" /\ u.role = "ref"
          /\ t.inner = u.inner
          /\ ~Overlaps(t.inner, StatementSpan(sf, foo))

\* C15, as claimed: for a selection in foo that holds no use of bar, with
\* foo calling bar and foo used elsewhere next to baz, both bar and baz are
\* returned as local dependencies.
C15_HelperAndUsage ==
  (Extracted /\ ScenarioC) => {"bar", "baz"} \subseteq ExtractedNames

\* the references that count inside a declaration: identifiers that are no
\* property name and no declaration name, of a top-level declared name that
\* the declaration does not declare itself
ReferencedBy(sf, node) ==
  {t.text : t \in {u \in TokensIn(sf, StatementSpan(sf, node)) :
                     /\ u.role = "ref"
                     /\ u.text \in DeclaredNames(sf)
                     /\ u.text \notin getLocalDeclaredNamesForNode(sf, StatementSpan(sf, node))}}

\* C19: the returned declarations are closed under reference, and the
\* worklist loop always has its next step and shifts the queue at most once
\* per declared name, cyclic references included.
C19_ClosedUnderReference ==
  /\ Extracted =>
       \A D \in ExtractedNodes :
         \A N \in ReferencedBy(localExtraction.sourceFile, D) :
           declarationByName(localExtraction.sourceFile, N) \in ExtractedNodes
  /\ localExtraction.shifts <= Cardinality(DeclaredNames(localExtraction.sourceFile))
  /\ \A n \in Range(localExtraction.queue) :
       Count(localExtraction.queue, n) = 1 /\ n \in Range(localExtraction.requiredNames)
  /\ localExtraction.phase = "closure" =>
       extractionStep(localExtraction, TsFile("a")) # localExtraction

\* bar and baz reference each other, and both are returned
C19_Witness ==
  LET sf == localExtraction.sourceFile
      bar == declarationByName(sf, "bar")
      baz == declarationByName(sf, "baz")
  IN /\ Extracted
     /\ bar # 0 /\ baz # 0
     /\ "baz" \in ReferencedBy(sf, bar) /\ "bar" \in ReferencedBy(sf, baz)
     /\ {bar, baz} \subseteq ExtractedNodes

\* C20: the declarations are emitted in strictly ascending order of their
\* start offset, each collected node exactly once, whatever the order in
\* which the names were found.
C20_SourceOrder ==
  Extracted =>
    LET sf == localExtraction.sourceFile
        out == localExtraction.out
    IN /\ \A i \in DOMAIN out : \A j \in DOMAIN out :
            i < j => sf.statements[out[i].node].start < sf.statements[out[j].node].start
       /\ ExtractedNodes = Range(localExtraction.requiredNodes)
       /\ Len(out) = Len(localExtraction.requiredNodes)

\* the closure found a later declaration before an earlier one
C20_Witness ==
  /\ Extracted
  /\ Len(localExtraction.requiredNodes) >= 2
  /\ localExtraction.requiredNodes[1] > localExtraction.requiredNodes[2]

\* the named top-level function or class statements
NamedDeclarations(sf) ==
  {i \in DOMAIN sf.statements :
     sf.statements[i].kind \in {"function", "class"} /\ sf.statements[i].names # <<>>}

\* the range is exactly such a statement / lies within one
SelectedExactly(sf, range) == {i \in NamedDeclarations(sf) : range = StatementSpan(sf, i)}
SelectedWithin(sf, range) == {i \in NamedDeclarations(sf) : Within(range, StatementSpan(sf, i))}

\* a statement outside the range mentions F next to another declared name
UsedElsewhere(sf, range, F) ==
  \E t \in Range(sf.tokens), u \in Range(sf.tokens) :
    /\ t.text = F /\ t.role \in {"ref", "property"}
    /\ (t.inner.end < range.start \/ t.inner.start > range.end)
    /\ Within(u, t.inner)
    /\ u.text # F /\ u.role \in {"ref", "property"} /\ u.text \in DeclaredNames(sf)

\* C22, as claimed: names come from the usage scan only when the range is
\* exactly a named top-level function or class declaration.
C22_UsageScanOnlyWhenExact ==
  (Extracted /\ localExtraction.fromUsage # <<>>) =>
    SelectedExactly(localExtraction.sourceFile, localExtraction.range) # {}

\* C22, amended: names come from the usage scan exactly when the range lies
\* within a named top-level function or class declaration F (the whole
\* declaration or any part of it) and a statement outside the range mentions
\* F next to another declared name.
C22_UsageScanWhenWithin ==
  Extracted =>
    LET sf == localExtraction.sourceFile
        range == localExtraction.range
    IN (localExtraction.fromUsage # <<>>) =
         (\E i \in SelectedWithin(sf, range) :
            /\ \A j \in SelectedWithin(sf, range) : i <= j
            /\ UsedElsewhere(sf, range, sf.statements[i].names[1]))

\* the range is one identifier in the body of a function, and the usage scan
\* added a name
C22_Witness ==
  /\ Extracted
  /\ localExtraction.fromUsage # <<>>
  /\ SelectedExactly(localExtraction.sourceFile, localExtraction.range) = {}
  /\ \E t \in Range(localExtraction.sourceFile.tokens) :
       t.role = "ref" /\ localExtraction.range = Span(t.start, t.end)

\* C26, as claimed: when the range is exactly a named top-level function or
\* class declaration F, the declaration of F is not among the returned
\* local dependencies.
C26_TargetNotReturned ==
  Extracted =>
    \A i \in SelectedExactly(localExtraction.sourceFile, localExtraction.range) :
      i \notin ExtractedNodes

\* ---- local dependencies in the result of resolve
IsLocalPath(filePath) == \E i \in DOMAIN filePath : filePath[i] \in {"#local", "#local:"}

\* C11: in the result no local dependency (#local path) is followed by a
\* cross-file dependency; the cross-file ones are those of the sort, in its
\* order.
C11_CrossFileFirst ==
  Returned =>
    /\ \A i \in DOMAIN DepPaths : \A j \in DOMAIN DepPaths :
         (i < j /\ IsLocalPath(DepPaths[i])) => IsLocalPath(DepPaths[j])
    /\ \A i \in DOMAIN call.sorted :
         call.result.dependencies[i] = call.sorted[i] /\ ~IsLocalPath(DepPaths[i])
    /\ \A i \in DOMAIN DepPaths : i > Len(call.sorted) => IsLocalPath(DepPaths[i])

\* two cross-file dependencies followed by two local ones
C11_Witness ==
  /\ Returned
  /\ Len(call.sorted) = 2 /\ Len(DepPaths) = 4
  /\ ~IsLocalPath(DepPaths[2]) /\ IsLocalPath(DepPaths[3])

\* ---- CodeFormatter.format
Formatted == formatting.phase = "done"

\* the lines that carry the dependencies, the target and the warnings
Carrying(lines) ==
  LET carries(l) == l.kind \in {"from", "code", "comment"} IN SelectSeq(lines, carries)

\* the dependencies deduplicated by filePath, first occurrence kept
FirstOccurrences(deps) ==
  LET first(i) == \A j \in 1..(i - 1) : deps[j].filePath # deps[i].filePath
      RECURSIVE from(_)
      from(i) == IF i > Len(deps) THEN <<>>
                 ELSE (IF first(i) THEN <<deps[i]>> ELSE <<>>) \o from(i + 1)
  IN from(1)

RECURSIVE Flatten(_)
Flatten(seqs) == IF seqs = <<>> THEN <<>> ELSE Head(seqs) \o Flatten(Tail(seqs))

\* what the output carries, given which From comments are written
ExpectedOutput(result, depFrom, targetFrom, warnings) ==
  LET deps == FirstOccurrences(result.dependencies)
  IN Flatten([i \in DOMAIN deps |->
                (IF depFrom THEN <<From(deps[i].relativePath)>> ELSE <<>>)
                \o <<Code(cleanContent(deps[i].content))>>])
     \o (IF targetFrom THEN <<From(targetLabel(result.targetFragment))>> ELSE <<>>)
     \o <<Code(cleanContent(result.targetFragment.content))>>
     \o (IF warnings THEN [k \in DOMAIN result.errors |-> Comment(result.errors[k])] ELSE <<>>)

HasWarningsSection(lines) == \E k \in DOMAIN lines : lines[k] = Title("Warnings")

\* C13, as claimed: the output carries each deduplicated dependency after
\* its From comment, then the target after its From comment, then, iff there
\* are errors and comments are enabled, the warnings section with every
\* error in order.
C13_FormatLayout ==
  Formatted =>
    LET warnings == formatting.result.errors # <<>> /\ formatting.includeComments
    IN /\ Carrying(formatting.lines) = ExpectedOutput(formatting.result, TRUE, TRUE, warnings)
       /\ HasWarningsSection(formatting.lines) = warnings

\* C13, amended: as claimed, with the From comment of a dependency written
\* only when comments are enabled, and that of the target only when comments
\* are enabled and the target's filePath is not empty.
C13_FormatLayoutWithComments ==
  Formatted =>
    LET warnings == formatting.result.errors # <<>> /\ formatting.includeComments
        targetFrom == formatting.includeComments /\ formatting.result.targetFragment.filePath # <<>>
    IN /\ Carrying(formatting.lines) =
            ExpectedOutput(formatting.result, formatting.includeComments, targetFrom, warnings)
       /\ HasWarningsSection(formatting.lines) = warnings

\* a result with a repeated filePath and two errors, formatted with comments
C13_Witness ==
  /\ Formatted /\ formatting.includeComments
  /\ Len(formatting.result.dependencies) = 2
  /\ formatting.result.dependencies[1].filePath = formatting.result.dependencies[2].filePath
  /\ formatting.result.dependencies[1] # formatting.result.dependencies[2]
  /\ Len(formatting.result.errors) = 2
  /\ formatting.result.targetFragment.filePath # <<>>

\* ---- extractFragment
FragmentReturned == fragmentExtraction.phase = "done"

\* the declaration nodes whose span contains the range
Containing(x) ==
  {n \in DOMAIN x.document.nodes :
     /\ x.document.nodes[n].kind \in {"function", "variable"}
     /\ x.document.nodes[n].start <= getPositionOfLineAndCharacter(x.document.content, x.range.start)
     /\ x.document.nodes[n].end >= getPositionOfLineAndCharacter(x.document.content, x.range.end)}

NodeSize(x, n) == x.document.nodes[n].end - x.document.nodes[n].start

\* the smallest of them, the first found among equally small ones
SmallestContaining(x) ==
  CHOOSE n \in Containing(x) :
    \A m \in Containing(x) :
      NodeSize(x, n) < NodeSize(x, m) \/ (NodeSize(x, n) = NodeSize(x, m) /\ n <= m)

\* C14: extractFragment returns the text of the smallest declaration node
\* that contains the range (the first found among equally small ones), and
\* returns the lines of the range with type 'selection' when there is none,
\* when that node is the whole source, or when it spans more than 80% of
\* the file (exactly 80% is accepted).
C14_SmallestDeclaration ==
  FragmentReturned =>
    LET x == fragmentExtraction
        length == Len(x.document.content)
        lines == splitLines(x.document.content)
    IN IF \/ Containing(x) = {}
          \/ NodeSize(x, SmallestContaining(x)) = length
          \/ 5 * NodeSize(x, SmallestContaining(x)) > 4 * length
         THEN /\ x.out.type = "selection"
              /\ x.out.content =
                   joinLines([k \in 1..(x.range.end.line - x.range.start.line + 1)
                                |-> lines[x.range.start.line + k]])
         ELSE /\ x.out.node = SmallestContaining(x)
              /\ x.out.content =
                   [k \in 1..NodeSize(x, SmallestContaining(x))
                      |-> x.document.content[x.document.nodes[SmallestContaining(x)].start + k]]

\* a declaration of exactly 80% of the file is returned, found inside a
\* larger declaration that also contains the range
C14_Witness ==
  /\ FragmentReturned
  /\ Cardinality(Containing(fragmentExtraction)) >= 2
  /\ fragmentExtraction.out.node # 0
  /\ 5 * NodeSize(fragmentExtraction, fragmentExtraction.out.node)
       = 4 * Len(fragmentExtraction.document.content)

\* ---- overlapping calls
Invocations == {call, peer.call}
ReturnedCalls == {k \in Invocations : k.phase = "done"}
\* the result of the same call on an instance nothing else uses
Alone(k) == resolveFresh(k.fragment, k.options).result
Overlapped == peer.overlapped

\* C16: two invocations of the command whose resolve calls interleave at
\* their awaits never fail in the resolver and return what each returns when
\* run alone.
C16_OwnResolverIsolated ==
  /\ \A k \in Invocations : k.phase # "thrown"
  /\ \A k \in ReturnedCalls : k.result = Alone(k)

\* both invocations returned dependencies after their calls overlapped
C16_Witness ==
  /\ Overlapped
  /\ call.phase = "done" /\ peer.call.phase = "done"
  /\ Len(call.result.dependencies) >= 2
  /\ peer.call.result.dependencies # <<>>
  /\ call.fragment # peer.call.fragment

\* C18: on one shared instance a call fails or returns a result other than
\* the one it returns alone only when the two calls overlapped, and such an
\* interleaving exists (C18_Witness).
C18_SharedUnsafeWhenOverlapped ==
  (\/ \E k \in Invocations : k.phase = "thrown"
   \/ \E k \in ReturnedCalls : k.result # Alone(k))
    => Overlapped

\* a call on the shared instance returned without a dependency it returns
\* alone, and the other call returned a dependency it does not return alone
C18_Witness ==
  /\ call.phase = "done" /\ peer.call.phase = "done"
  /\ \E k \in Invocations :
       \E d \in Range(Alone(k).dependencies) : d \notin Range(k.result.dependencies)
  /\ \E k \in Invocations :
       \E d \in Range(k.result.dependencies) : d \notin Range(Alone(k).dependencies)

\* ---- the fragment the command hands to resolve
\* C29, as claimed: for a selection strictly inside a top-level function (one
\* identifier of its body), which the command replaces by the text of the
\* whole function, the local
\* dependencies hold the declaration of every top-level name the function
\* references.
C29_SelfContained ==
  (Returned /\ call.fragment.hasRange /\ CanRead(call.fragment.filePath)) =>
    LET sf == createSourceFile(readFileSync(call.fragment.filePath))
        range == call.fragment.range
        inBody(i) == \E t \in TokensIn(sf, StatementSpan(sf, i)) :
                       t.role = "ref" /\ range = Span(t.start, t.end)
    IN \A i \in SelectedWithin(sf, range) :
         inBody(i) =>
           \A N \in ReferencedBy(sf, i) :
             localPath(call.fragment.filePath, <<N>>) \in Range(DepPaths)

\* ---- the files on disk and their imports
\* A imports B: an import entry of the readable file A resolves to B
DiskEdges ==
  {<<A, B>> \in (DOMAIN disk) \X (DOMAIN disk) :
     /\ CanRead(A)
     /\ \E i \in DOMAIN disk[A].imports : resolveImportPath(disk[A].imports[i], A) = B}

RECURSIVE DiskReachable(_)
DiskReachable(S) ==
  LET T == S \cup {e[2] : e \in {d \in DiskEdges : d[1] \in S}}
  IN IF T = S THEN S ELSE DiskReachable(T)

DiskCyclic == \E e \in DiskEdges : e[1] \in DiskReachable({e[2]})

\* C27, as claimed: for maxDepth >= 1 and files whose imports form no cycle,
\* if A and B are both among the dependencies and A holds a resolvable
\* import of B, then B stands before A.
C27_ImportOrderUnderTruncation ==
  (Returned /\ call.maxDepth >= 1 /\ ~DiskCyclic) =>
    \A e \in DiskEdges :
      (e[1] \in Range(DepPaths) /\ e[2] \in Range(DepPaths)) =>
        PosOf(DepPaths, e[2]) < PosOf(DepPaths, e[1])

\* C30: once the traversal is over, every key of the cache is in the
\* adjacency set of a visited file, and when the depth-first phase of the
\* sort is over the trailing loop has nothing to append.
C30_CacheWithinGraph ==
  /\ call.phase \in {"sort", "done"} =>
       \A k \in CacheKeys :
         \E f \in resolver.visitedFiles : k \in Range(graphDeps(resolver, f))
  /\ (canResolveEnd(Cur) \/ Returned) => trailingLeaves(resolver, call.visited) = <<>>

\* a depth-truncated pass: b.ts and c.ts are cached at depth 1 and not
\* entered, though b.ts has an import
C30_Witness ==
  /\ Returned /\ call.maxDepth = 1
  /\ Len(resolver.resolvedDependencies) = 2
  /\ resolver.visitedFiles = {TsFile("a")}
  /\ \E p \in CacheKeys : disk[p].imports # <<>>

RECURSIVE WithinChain(_, _)
WithinChain(S, n) ==
  IF n = 0 THEN {}
  ELSE LET T == {e[2] : e \in {d \in DiskEdges : d[1] \in S}}
       IN T \cup WithinChain(T, n - 1)

\* C24, as claimed: for maxDepth = N >= 1 every readable, non-empty file
\* that a chain of at most N resolvable local imports leads to from the
\* target is among the dependencies.
C24_CompleteWithinDepth ==
  (Returned /\ call.maxDepth >= 1) =>
    \A f \in WithinChain({call.fragment.filePath}, call.maxDepth) :
      (CanRead(f) /\ ~disk[f].empty) => f \in Range(DepPaths)

\* ---- declarations of one file under their pseudo-paths
ExtractionDone == localExtraction.phase = "done"

\* C23, as claimed: any two distinct declaration statements that
\* extractLocalDependencies returns carry distinct filePath values.
C23_DistinctPseudoPaths ==
  ExtractionDone =>
    \A i \in DOMAIN localExtraction.out : \A j \in DOMAIN localExtraction.out :
      localExtraction.out[i].node # localExtraction.out[j].node =>
        localExtraction.out[i].filePath # localExtraction.out[j].filePath

\* ---- names declared inside the selection
\* N is the name of a declaration (function, variable or parameter) whose
\* name lies inside the range, and every identifier N of the file that is
\* not the name of a declaration lies inside the range
Shadowed(sf, range, N) ==
  /\ \E k \in DOMAIN sf.tokens :
       sf.tokens[k].role = "name" /\ sf.tokens[k].text = N /\ Within(sf.tokens[k], range)
  /\ \A k \in DOMAIN sf.tokens :
       (sf.tokens[k].role \in {"ref", "property"} /\ sf.tokens[k].text = N)
         => Within(sf.tokens[k], range)

\* statement D holds a reference to N and declares no N inside itself
FreeReference(sf, D, N) ==
  /\ N \notin getLocalDeclaredNamesForNode(sf, StatementSpan(sf, D))
  /\ \E k \in DOMAIN sf.tokens :
       /\ sf.tokens[k].role = "ref" /\ sf.tokens[k].text = N
       /\ Within(sf.tokens[k], StatementSpan(sf, D))

\* C21, as claimed: if N is declared inside the selected range and the only
\* identifier references to N in the file lie inside the range, the
\* top-level declaration named N is not returned.
C21_ShadowedNotReturned ==
  ExtractionDone =>
    LET sf == localExtraction.sourceFile
    IN \A N \in DeclaredNames(sf) :
         Shadowed(sf, localExtraction.range, N) =>
           declarationByName(sf, N) \notin Range(localExtraction.requiredNodes)

\* C21, amended: under the same condition the identifiers of the range and
\* the usage scan do not require N; N is required only through a returned
\* declaration that refers to N and declares no N inside itself, and never
\* when the range lies within one top-level statement; and the top-level
\* declaration named N is returned only if N or another name it declares
\* is required.
C21_ShadowedUnlessRequiredElsewhere ==
  ExtractionDone =>
    LET x == localExtraction
        sf == x.sourceFile
    IN \A N \in DeclaredNames(sf) :
         Shadowed(sf, x.range, N) =>
           /\ N \notin Range(x.fromRange) \cup Range(x.fromUsage)
           /\ N \in Range(x.requiredNames) =>
                \E D \in Range(x.requiredNodes) : FreeReference(sf, D, N)
           /\ (\E i \in DOMAIN sf.statements : Within(x.range, StatementSpan(sf, i)))
                => N \notin Range(x.requiredNames)
           /\ declarationByName(sf, N) \in Range(x.requiredNodes) =>
                \E M \in Range(x.requiredNames) :
                  declarationByName(sf, M) = declarationByName(sf, N)

\* `function baz(bar) { qux }` and `function foo() { bar }` are selected
\* together, qux refers to foo, and `function bar` is returned
C21_Witness ==
  /\ ExtractionDone
  /\ Shadowed(localExtraction.sourceFile, localExtraction.range, "bar")
  /\ "bar" \in Range(localExtraction.requiredNames)
  /\ \E i \in DOMAIN localExtraction.out :
       localExtraction.out[i].node = declarationByName(localExtraction.sourceFile, "bar")
  /\ Cardinality({i \in DOMAIN localExtraction.sourceFile.statements :
                    Within(StatementSpan(localExtraction.sourceFile, i), localExtraction.range)}) = 2

\* ---- the fragment of a copy with an empty selection
\* the selection events of kind Mouse recorded for the document
MouseEvents(uri) ==
  {i \in DOMAIN editor.events :
     editor.events[i].kind = "Mouse" /\ editor.events[i].uri = uri}

\* the anchor, from the events so far
Anchor ==
  LET mouse == MouseEvents(editor.active)
  IN IF mouse # {}
       THEN editor.events[CHOOSE i \in mouse : \A j \in mouse : j <= i].selection.active
       ELSE currentSelection(editor).active

\* the symbol ranges of the kinds the command looks at that contain the
\* position and contain no other such range
SmallestSymbolRanges(document, position) ==
  LET flat == collect(document.symbols)
      around == {flat[i].range : i \in {j \in DOMAIN flat :
                   /\ flat[j].kind \in allowedKinds
                   /\ rangeContains(flat[j].range, position)}}
      inside(r, q) == rangeContains(q, r.start) /\ rangeContains(q, r.end)
  IN {r \in around : \A q \in around : inside(q, r) => q = r}

\* C28, as claimed: with an empty selection the anchor is the active end of
\* the last Mouse selection event recorded for the active document, if
\* any, else the cursor; the fragment is the smallest symbol range that
\* contains the anchor, else the word at the anchor, else the whole file.
C28_AnchorAndSmallestSymbol ==
  (editor.copied /\ isEmpty(currentSelection(editor))) =>
    LET smallest == SmallestSymbolRanges(editor.document, Anchor)
        word == getWordRangeAtPosition(editor.document, Anchor)
    IN IF smallest # {}
         THEN editor.fragment.type = "selection" /\ editor.fragment.range \in smallest
       ELSE IF word # <<>>
         THEN editor.fragment = makeRangeFragment(word[1])
       ELSE editor.fragment = makeFullFileFragment(editor.document)

====
